---- MODULE Spec2Model ----
(***************************************************************************)
(* A model of `forge clone` (crates/forge/src/cmd/clone.rs): the pipeline  *)
(* CloneArgs::run, the source materializer dump_sources, the configuration *)
(* synthesis and the fingerprint extraction; of the FoundryNetwork wallet   *)
(* (crates/primitives/src/network/wallet.rs) and of the unsafe-typecast    *)
(* lint (crates/lint/src/sol/high/unsafe_typecast.rs).                     *)
(*                                                                         *)
(* A path is a sequence of components relative to the project root; an     *)
(* absolute path carries the component RootMark in front.  The file system *)
(* under the root is a function from the existing paths to a content tag:  *)
(* <<"dir">> for a directory, <<"project", ...>> for a file the project    *)
(* held before, <<"fetched">> \o p for the fetched entry whose path in the *)
(* explorer's source tree is p.                                            *)
(***************************************************************************)
EXTENDS Integers, Sequences, FiniteSets, TLC

VARIABLES
    pc,          \* position of the run
    args,        \* the CloneArgs of the run
    answer,      \* the explorer's answer to the source request
    meta,        \* the Metadata collect_metadata_from_client returned
    fs,          \* the file system under the project root
    fsBefore,    \* the file system when dump_sources was entered
    dump,        \* what dump_sources returned
    doc,         \* the persisted foundry.toml, active profile
    found,       \* what compile + find_main_contract + layout gave
    creation,    \* the explorer's answer to the creation-data request
    cloneMeta,   \* the record serialized into .clone.meta
    calls,       \* how often each external collaborator was invoked
    log,         \* the stages executed so far, each with its result
    err,         \* the error the run ended with
    remappingsTxt, \* the lines of remappings.txt
    artifacts,   \* input of find_main_contract (function-level runs)
    target,      \* input of find_main_contract (function-level runs)
    docBefore,   \* the document when config synthesis was entered
    wallet,      \* the addresses the EthereumWallet holds a signer for
    txRequest,   \* sender and typed transaction of sign_transaction_from
    signed,      \* what sign_transaction_from returned
    lintExpr,    \* the expression handed to UnsafeTypecast::check_expr
    lintOut      \* how check_expr ended and what it emitted

vars == <<pc, args, answer, meta, fs, fsBefore, dump, doc, found, creation,
          cloneMeta, calls, log, err, remappingsTxt, artifacts, target,
          docBefore, wallet, txRequest, signed, lintExpr, lintOut>>

\* the state of the wallet and of the lint pass, which `forge clone`
\* leaves alone
libVars == <<wallet, txRequest, signed, lintExpr, lintOut>>

LibIdle ==
    /\ wallet = {}
    /\ txRequest = <<>>
    /\ signed = <<>>
    /\ lintExpr = <<>>
    /\ lintOut = <<>>

-----------------------------------------------------------------------------
(* Bounds *)

\* files of a fetched source tree
MaxFiles == 2
\* artifacts of a compile output
MaxArtifacts == 2
\* nesting of the operators in the argument of a cast
MaxDepth == 2

-----------------------------------------------------------------------------
(* Names and paths *)

ContractName == "Main"
RootMark == "/project"

Abs(p) == <<RootMark>> \o p

IsPrefix(p, q) == Len(p) <= Len(q) /\ SubSeq(q, 1, Len(p)) = p

Tail2(p, n) == SubSeq(p, n + 1, Len(p))

RECURSIVE Perms(_)
Perms(S) ==
    IF S = {} THEN {<<>>}
    ELSE UNION {{<<x>> \o q : q \in Perms(S \ {x})} : x \in S}

BoundedSeqs(S, n) == UNION {[1..k -> S] : k \in 0..n}

Dir == <<"dir">>

\* top-level entries whose children are flattened when reorganizing
FlattenNames == {"contracts", "src", "lib", "node_modules"}
\* top-level entries moved as a whole when reorganizing
WholeNames == {"hardhat", "forge-std", "@openzeppelin"}
\* a top-level entry outside the recognized set
OtherNames == {"interfaces"}
TopNames == FlattenNames \cup WholeNames \cup OtherNames

\* str::starts_with('@') on the names of the model
StartsWithAt(name) == name \in {"@openzeppelin"}

\* The paths a fetched source tree is made of: a child of a flattened
\* directory, or a top-level entry taken as one unit.
TreePaths ==
    {<<"contracts", "A">>, <<"src", "A">>, <<"src", "B">>,
     <<"lib", "A">>, <<"lib", "forge-std">>, <<"lib", "hardhat">>,
     <<"node_modules", "A">>}
        \cup {<<t>> : t \in WholeNames \cup OtherNames}

TreesUpTo(n) == {T \in SUBSET TreePaths : Cardinality(T) \in 1..n}

TopEntries(tree) == {p[1] : p \in tree}

-----------------------------------------------------------------------------
(* File system operations *)

Exists(f, p) == p \in DOMAIN f

\* std::fs::rename of `from` (with everything below it) to `to`
Rename(f, from, to) ==
    LET moved == {x \in DOMAIN f : IsPrefix(from, x)}
        gone == {x \in DOMAIN f : IsPrefix(to, x)}
        kept == (DOMAIN f \ moved) \ gone
        new(x) == to \o Tail2(x, Len(from))
        old(q) == from \o Tail2(q, Len(to))
    IN [q \in kept \cup {new(x) : x \in moved} |->
            IF q \in kept THEN f[q] ELSE f[old(q)]]

\* std::fs::remove_dir_all / remove_file of an existing path
Remove(f, p) == [q \in {x \in DOMAIN f : ~IsPrefix(p, x)} |-> f[q]]

\* std::fs::create_dir of a path that does not exist
CreateDir(f, p) == [q \in DOMAIN f \cup {p} |-> IF q = p THEN Dir ELSE f[q]]

\* SourceTree::write_to(root/raw_sources): every entry of the tree under
\* raw_sources/<contract name>/
Staging == <<"raw_sources">>
Staged == <<"raw_sources", ContractName>>

WriteTo(f, tree) ==
    LET dirs == {Staging, Staged}
                  \cup {Staged \o <<p[1]>> : p \in {q \in tree : Len(q) = 2}}
        files == {Staged \o p : p \in tree}
    IN [q \in DOMAIN f \cup dirs \cup files |->
            IF q \in files THEN <<"fetched">> \o Tail2(q, 2)
            ELSE IF q \in dirs THEN Dir
            ELSE f[q]]

-----------------------------------------------------------------------------
(* Remappings *)

\* Remapping { context: None, name, path }
Remapping(name, path) == [name |-> name, path |-> path]

\* into_relative that leaves every path as it is
into_relative_keep(r) == r

\* Remapping::into_relative(root): the root prefix is stripped from a path
\* that lies under the root; any other path is kept
into_relative(r) ==
    IF IsPrefix(<<RootMark>>, r.path)
    THEN [r EXCEPT !.path = Tail2(r.path, 1)]
    ELSE r

RECURSIVE MapRelative(_)
MapRelative(rs) ==
    IF rs = <<>> THEN <<>>
    ELSE <<into_relative(Head(rs))>> \o MapRelative(Tail(rs))

\* Remapping::find_many(root): one remapping per dependency found in the
\* library directory, in the order of their names
LibOrder == <<"@openzeppelin", "A", "forge-std", "hardhat">>

RECURSIVE FindManyFrom(_, _)
FindManyFrom(f, i) ==
    IF i > Len(LibOrder) THEN <<>>
    ELSE (IF Exists(f, <<"lib", LibOrder[i]>>)
          THEN <<Remapping(<<LibOrder[i]>>, Abs(<<"lib", LibOrder[i]>>))>>
          ELSE <<>>) \o FindManyFrom(f, i + 1)

find_many(f) == FindManyFrom(f, 1)

-----------------------------------------------------------------------------
(* dump_sources *)

\* ProjectPathsConfig::builder().build_with_root(root): `sources` and
\* `libraries[0]` of a root that holds no `contracts` directory and no
\* `node_modules` in place of `lib`
src_dir == <<"src">>
lib_dir == <<"lib">>
node_modules_dir == <<"node_modules">>

\* the closure of read_dir(..).all(..) in dump_sources
Recognized(folder_name) ==
    \/ folder_name = "src"
    \/ folder_name = "lib"
    \/ folder_name = "node_modules"
    \/ folder_name = "contracts"
    \/ folder_name = "hardhat"
    \/ folder_name = "forge-std"
    \/ StartsWithAt(folder_name)

\* to_reorg with any() in the place of all()
to_reorg_any(tree, no_reorg) ==
    ~no_reorg /\ \E e \in TopEntries(tree) : Recognized(e)

to_reorg(tree, no_reorg) ==
    ~no_reorg /\ \A e \in TopEntries(tree) : Recognized(e)

\* The order in which read_dir yields the entries is the file system's: a
\* plan lists the paths of the tree with the children of one directory
\* next to each other.
Plans(tree) ==
    {pl \in Perms(tree) :
        \A i, j, k \in 1..Len(pl) :
            (i < j /\ j < k /\ pl[i][1] = pl[k][1]) => pl[j][1] = pl[i][1]}

\* new_dir without its `lib` and `node_modules` arms
new_dir_src(folder_name) == src_dir

\* the target directory of a flattened top-level directory
new_dir(folder_name) ==
    IF folder_name = "lib" THEN lib_dir
    ELSE IF folder_name = "node_modules" THEN node_modules_dir
    ELSE src_dir

\* a move without the ensure! on its destination
MoveUnguarded(f, dest) == TRUE

\* the guard of every move: eyre::ensure!(!Path::exists(&dest), ..)
MoveGuard(f, dest) == ~Exists(f, dest)

\* a move that puts its remapping at the front of the list
MoveToFront(st, from, dest, name, record, existed) ==
    IF ~MoveGuard(st.fs, dest)
    THEN [st EXCEPT !.err = "destination already exists", !.at = dest,
                    !.from = from]
    ELSE [st EXCEPT
            !.fs = Rename(st.fs, from, dest),
            !.moves = Append(st.moves, [from |-> from, to |-> dest,
                                        existed |-> existed]),
            !.rem = IF record
                    THEN <<Remapping(name, Abs(dest))>> \o st.rem
                    ELSE st.rem]

\* ensure, rename, remappings.push: one move of the loop
\* `existed` tells whether dest existed when the loop reached this entry
MoveTo(st, from, dest, name, record, existed) ==
    IF ~MoveGuard(st.fs, dest)
    THEN [st EXCEPT !.err = "destination already exists", !.at = dest,
                    !.from = from]
    ELSE [st EXCEPT
            !.fs = Rename(st.fs, from, dest),
            !.moves = Append(st.moves, [from |-> from, to |-> dest,
                                        existed |-> existed]),
            !.rem = IF record
                    THEN Append(st.rem, Remapping(name, Abs(dest)))
                    ELSE st.rem]

\* the removal of the destination extended to hardhat
OverriddenScaffolding(folder_name) == folder_name \in {"forge-std", "hardhat"}

\* the directories whose existing destination is removed before the move
Overridden(folder_name) == folder_name = "forge-std"

\* the no-reorg branch without its `folder_name != "src"` test
RecordsAlways(folder_name) == TRUE

\* when not reorganizing: whether the moved entry gets a remapping
RecordsRemapping(folder_name) == folder_name # "src"

\* the body of the loop for the first path of a top-level entry
EnterEntry(st, folder_name, reorg) ==
    IF reorg /\ folder_name = "node_modules"
    THEN IF Exists(st.fs, node_modules_dir)
         THEN [st EXCEPT !.err = "create_dir: File exists",
                         !.at = node_modules_dir,
                         !.from = Staged \o <<folder_name>>]
         ELSE [st EXCEPT !.fs = CreateDir(st.fs, node_modules_dir)]
    ELSE st

\* the body of the loop for one path of the plan
MoveStep(st, p, first, reorg) ==
    LET folder_name == p[1]
        entry == Staged \o <<folder_name>>
    IN IF reorg
       THEN IF folder_name \in FlattenNames
            THEN LET s1 == IF first THEN EnterEntry(st, folder_name, reorg)
                           ELSE st
                 IN IF s1.err # "" THEN s1
                    ELSE MoveTo(s1, entry \o <<p[2]>>,
                                new_dir(folder_name) \o <<p[2]>>,
                                <<folder_name, p[2]>>, TRUE,
                                Exists(s1.fs, new_dir(folder_name) \o <<p[2]>>))
            ELSE LET dest == lib_dir \o <<folder_name>>
                 IN IF Overridden(folder_name)
                    THEN IF ~Exists(st.fs, dest)
                         THEN [st EXCEPT !.err = "remove_dir_all: not found",
                                         !.at = dest, !.from = entry]
                         ELSE MoveTo([st EXCEPT !.fs = Remove(st.fs, dest),
                                                !.removed = @ \cup {dest}],
                                     entry, dest, <<folder_name>>, TRUE, TRUE)
                    ELSE MoveTo(st, entry, dest, <<folder_name>>, TRUE,
                                Exists(st.fs, dest))
       ELSE IF first
            THEN MoveTo(st, entry, src_dir \o <<folder_name>>,
                        <<folder_name>>, RecordsRemapping(folder_name),
                        Exists(st.fs, src_dir \o <<folder_name>>))
            ELSE st

RECURSIVE MoveLoop(_, _, _, _)
MoveLoop(st, plan, i, reorg) ==
    IF i > Len(plan) \/ st.err # "" THEN st
    ELSE MoveLoop(MoveStep(st, plan[i],
                           i = 1 \/ plan[i - 1][1] # plan[i][1], reorg),
                  plan, i + 1, reorg)

\* str::starts_with("contracts") on the first component of a declared path
StartsWithContracts(path) ==
    path # <<>> /\ path[1] \in {"contracts", "contracts-v2"}

\* str::starts_with('@') / ("hardhat/") / ("forge-std/") on a declared path
StartsWithLibName(path) ==
    /\ path # <<>>
    /\ \/ StartsWithAt(path[1])
       \/ path[1] \in {"hardhat", "forge-std"} /\ Len(path) >= 2

\* the rewrite of one remapping declared in the settings; `ok` is FALSE
\* where Path::strip_prefix("contracts") returns an error
Rewrite(r, reorg) ==
    IF ~reorg THEN [ok |-> TRUE, r |-> r]
    ELSE IF StartsWithContracts(r.path)
    THEN IF r.path[1] = "contracts"
         THEN [ok |-> TRUE, r |-> [r EXCEPT !.path = <<"src">> \o Tail(r.path)]]
         ELSE [ok |-> FALSE, r |-> r]
    ELSE IF StartsWithLibName(r.path)
    THEN [ok |-> TRUE, r |-> [r EXCEPT !.path = <<"lib">> \o r.path]]
    ELSE [ok |-> TRUE, r |-> r]

RECURSIVE AddDeclared(_, _, _, _)
AddDeclared(st, declared, i, reorg) ==
    IF i > Len(declared) \/ st.err # "" THEN st
    ELSE LET w == Rewrite(declared[i], reorg)
         IN AddDeclared(IF w.ok
                        THEN [st EXCEPT !.rem = Append(st.rem, w.r)]
                        ELSE [st EXCEPT !.err = "strip_prefix: prefix not found",
                                        !.at = declared[i].path],
                        declared, i + 1, reorg)

\* a dump_sources that removes raw_sources when it fails
DumpResultCleaned(st, existing, reorg, staged) ==
    [ok |-> st.err = "",
     err |-> st.err,
     at |-> st.at,
     from |-> st.from,
     fs |-> IF st.err = "" THEN st.fs ELSE Remove(st.fs, Staging),
     staged |-> staged,
     reorg |-> reorg,
     n_existing |-> Len(existing),
     n_moved |-> Len(st.moves),
     moves |-> st.moves,
     removed |-> st.removed,
     pushed |-> st.rem,
     remappings |-> IF st.err = "" THEN MapRelative(st.rem) ELSE <<>>]

\* what dump_sources leaves behind and returns
DumpResult(st, existing, reorg, staged) ==
    [ok |-> st.err = "",
     err |-> st.err,
     at |-> st.at,
     from |-> st.from,
     fs |-> st.fs,
     staged |-> staged,
     reorg |-> reorg,
     n_existing |-> Len(existing),
     n_moved |-> Len(st.moves),
     moves |-> st.moves,
     removed |-> st.removed,
     pushed |-> st.rem,
     remappings |-> IF st.err = "" THEN MapRelative(st.rem) ELSE <<>>]

\* dump_sources(meta, root, no_reorg) on the file system f, read_dir
\* yielding the entries in the order of `plan`
dump_sources(f, m, no_reorg, plan) ==
    LET existing == find_many(f)
        reorg == to_reorg(m.tree, no_reorg)
        st0 == [fs |-> WriteTo(f, m.tree), rem |-> existing, moves |-> <<>>,
                removed |-> {}, err |-> "", at |-> <<>>, from |-> <<>>]
    IN IF ~Exists(st0.fs, src_dir)
       THEN DumpResult([st0 EXCEPT !.err = "src directory must exists",
                                   !.at = src_dir], existing, reorg, TRUE)
       ELSE IF ~Exists(st0.fs, lib_dir)
       THEN DumpResult([st0 EXCEPT !.err = "lib directory must exists",
                                   !.at = lib_dir], existing, reorg, TRUE)
       ELSE LET st1 == MoveLoop(st0, plan, 1, reorg)
            IN IF st1.err # "" THEN DumpResult(st1, existing, reorg, TRUE)
               ELSE DumpResult(
                        AddDeclared([st1 EXCEPT !.fs = Remove(st1.fs, Staging)],
                                    m.remappings, 1, reorg),
                        existing, reorg, TRUE)

-----------------------------------------------------------------------------
(* find_main_contract and the fingerprint extraction *)

NoLayout == "none"

\* the artifacts a compile can produce: (file, contract name, artifact)
Artifacts ==
    [file : {Abs(<<"src", "Main.sol">>), Abs(<<"lib", "Main.sol">>),
             <<"/elsewhere", "Main.sol">>},
     name : {ContractName, "Other"},
     storage_layout : {NoLayout, "L1", "L2"}]

NoArtifact == [file |-> <<>>, name |-> "", storage_layout |-> NoLayout]

\* the loop of find_main_contract: rv is the index of the match kept so
\* far, 0 for None
RECURSIVE FindLoop(_, _, _, _)
FindLoop(arts, contract, i, rv) ==
    IF i > Len(arts)
    THEN IF rv = 0
         THEN [ok |-> FALSE, err |-> "contract not found", rv |-> 0,
               file |-> <<>>, artifact |-> NoArtifact]
         ELSE [ok |-> TRUE, err |-> "", rv |-> rv,
               file |-> arts[rv].file, artifact |-> arts[rv]]
    ELSE IF contract = arts[i].name
    THEN IF rv # 0
         THEN [ok |-> FALSE,
               err |-> "multiple contracts with the same name found",
               rv |-> 0, file |-> <<>>, artifact |-> NoArtifact]
         ELSE FindLoop(arts, contract, i + 1, i)
    ELSE FindLoop(arts, contract, i + 1, rv)

\* find_main_contract without the `rv.is_some()` test: the last match wins
find_last_match(arts, contract) ==
    LET hits == {i \in 1..Len(arts) : arts[i].name = contract}
    IN IF hits = {}
       THEN FindLoop(arts, contract, 1, 0)
       ELSE LET k == CHOOSE i \in hits : \A j \in hits : j <= i
            IN [ok |-> TRUE, err |-> "", rv |-> k, file |-> arts[k].file,
                artifact |-> arts[k]]

find_main_contract(arts, contract) == FindLoop(arts, contract, 1, 0)

NotFound == [ok |-> FALSE, err |-> "", main_file |-> <<>>,
             storage_layout |-> NoLayout]

\* the extraction without strip_prefix(root): the file of the artifact is
\* taken as the compiler names it
ExtractUnstripped(out, contract) ==
    IF ~out.ok THEN [NotFound EXCEPT !.err = "compilation failed"]
    ELSE LET m == find_main_contract(out.artifacts, contract)
         IN IF ~m.ok THEN [NotFound EXCEPT !.err = m.err]
            ELSE IF m.artifact.storage_layout = NoLayout
            THEN [NotFound EXCEPT !.err = "panic: storage layout not found"]
            ELSE [ok |-> TRUE, err |-> "", main_file |-> m.file,
                  storage_layout |-> m.artifact.storage_layout]

\* collect_compilation_metadata up to its await: compile, find the main
\* contract, strip the root from its file, take its storage layout
Extract(out, contract) ==
    IF ~out.ok THEN [NotFound EXCEPT !.err = "compilation failed"]
    ELSE LET m == find_main_contract(out.artifacts, contract)
         IN IF ~m.ok THEN [NotFound EXCEPT !.err = m.err]
            ELSE IF ~IsPrefix(<<RootMark>>, m.file)
            THEN [NotFound EXCEPT !.err = "strip_prefix: prefix not found"]
            ELSE IF m.artifact.storage_layout = NoLayout
            THEN [NotFound EXCEPT !.err = "panic: storage layout not found"]
            ELSE [ok |-> TRUE, err |-> "", main_file |-> Tail(m.file),
                  storage_layout |-> m.artifact.storage_layout]

CompileOutputs ==
    {[ok |-> FALSE, artifacts |-> <<>>]}
        \cup [ok : {TRUE}, artifacts : BoundedSeqs(Artifacts, MaxArtifacts)]

\* what the first half of collect_compilation_metadata can come to, over
\* every output of compile_project
Extracted == {Extract(out, ContractName) : out \in CompileOutputs}

-----------------------------------------------------------------------------
(* The configuration document *)

\* Option<T>: <<>> is None, <<v>> is Some(v)
None == <<>>
Some(v) == <<v>>

\* Chain::mainnet().id()
ChainId == 1

\* doc[k] = v that assigns only to a key the table already has
SetExistingKey(d, k, v) == [x \in DOMAIN d |-> IF x = k THEN v ELSE d[x]]

\* doc[k] = v on a table: the key is created when it is missing
SetKey(d, k, v) == [x \in DOMAIN d \cup {k} |-> IF x = k THEN v ELSE d[x]]

RemoveKey(d, k) == [x \in DOMAIN d \ {k} |-> d[x]]

\* update_if_needed!([key], value) without its `if let Some`: None clears
update_always(d, key, value) ==
    IF value = None THEN RemoveKey(d, key) ELSE SetKey(d, key, value[1])

\* update_if_needed!([key], value): nothing for None; for Some the entry
\* of the profile table is looked up with get_mut (which yields the entry
\* of a table for every key) and assigned
update_if_needed(d, key, value) ==
    IF value = None THEN d ELSE SetKey(d, key, value[1])

\* a nested table of the document, and a value that is not a table
Table(items) == [is_table |-> TRUE, items |-> items]
NoItems == [k \in {} |-> TRUE]
Scalar == [is_table |-> FALSE, items |-> NoItems]

\* the fields of OptimizerDetails in the order update_config_by_metadata
\* takes them, and those of YulDetails
DetailKeys == <<"peephole", "inliner", "jumpdestRemover", "orderLiterals",
                "deduplicate", "cse", "constantOptimizer",
                "simpleCounterForLoopUncheckedIncrement", "yul">>
YulKeys == <<"stackAllocation", "optimizerSteps">>

\* the result of update_config_by_metadata so far: Ok with the document,
\* or the Err it returned with
Synth(d) == [ok |-> TRUE, err |-> "", doc |-> d]
SynthErr(r, e) == [r EXCEPT !.ok = FALSE, !.err = e]

\* Item::get_mut(key): the entry of a table (made if missing); None on a
\* value that is not a table
HasEntry(item) == item.is_table

\* update_if_needed!(["optimizer_details", key], value)
update_detail(r, key, value) ==
    IF ~r.ok \/ value = None THEN r
    ELSE LET cur == IF "optimizer_details" \in DOMAIN r.doc
                    THEN r.doc["optimizer_details"] ELSE Table(NoItems)
         IN IF ~HasEntry(cur)
            THEN SynthErr(r, "cannot find the key: " \o key)
            ELSE [r EXCEPT !.doc = SetKey(r.doc, "optimizer_details",
                                   Table(SetKey(cur.items, key, value[1])))]

\* update_if_needed!(["optimizer_details", "yulDetails", key], value)
update_yul_detail(r, key, value) ==
    IF ~r.ok \/ value = None THEN r
    ELSE LET cur == IF "optimizer_details" \in DOMAIN r.doc
                    THEN r.doc["optimizer_details"] ELSE Table(NoItems)
             yul == IF cur.is_table /\ "yulDetails" \in DOMAIN cur.items
                    THEN cur.items["yulDetails"] ELSE Table(NoItems)
         IN IF ~HasEntry(cur)
            THEN SynthErr(r, "cannot find the key: yulDetails")
            ELSE IF ~HasEntry(yul)
            THEN SynthErr(r, "cannot find the key: " \o key)
            ELSE [r EXCEPT !.doc = SetKey(r.doc, "optimizer_details",
                    Table(SetKey(cur.items, "yulDetails",
                                 Table(SetKey(yul.items, key, value[1])))))]

RECURSIVE ApplyDetails(_, _, _)
ApplyDetails(r, fields, i) ==
    IF i > Len(DetailKeys) THEN r
    ELSE ApplyDetails(update_detail(r, DetailKeys[i], fields[DetailKeys[i]]),
                      fields, i + 1)

RECURSIVE ApplyYulDetails(_, _, _)
ApplyYulDetails(r, fields, i) ==
    IF i > Len(YulKeys) THEN r
    ELSE ApplyYulDetails(update_yul_detail(r, YulKeys[i], fields[YulKeys[i]]),
                         fields, i + 1)

\* the yulDetails table made whether or not Yul details are reported
yul_details_always(r, detail) ==
    IF ~r.ok THEN r
    ELSE LET t == r.doc["optimizer_details"]
             r1 == [r EXCEPT !.doc = SetKey(r.doc, "optimizer_details",
                      Table(SetKey(t.items, "yulDetails", Table(NoItems))))]
         IN IF detail.yul_details = None THEN r1
            ELSE ApplyYulDetails(r1, detail.yul_details[1], 1)

\* `if let Some(yul_detail) = detail.yul_details { .. }`: a new yulDetails
\* table, then its two fields
yul_details(r, detail) ==
    IF ~r.ok \/ detail.yul_details = None THEN r
    ELSE LET t == r.doc["optimizer_details"]
             r1 == [r EXCEPT !.doc = SetKey(r.doc, "optimizer_details",
                      Table(SetKey(t.items, "yulDetails", Table(NoItems))))]
         IN ApplyYulDetails(r1, detail.yul_details[1], 1)

\* `if let Some(detail) = optimizer.details { .. }`: a new optimizer_details
\* table, its fields, its yulDetails
optimizer_details(r, details) ==
    IF ~r.ok \/ details = None THEN r
    ELSE LET r1 == [r EXCEPT !.doc = SetKey(r.doc, "optimizer_details",
                                            Table(NoItems))]
         IN yul_details(ApplyDetails(r1, details[1].fields, 1), details[1])

\* `if let Some(metadata) = metadata { .. }`
metadata_knobs(d, metadata) ==
    IF metadata = None THEN d
    ELSE update_if_needed(
             update_if_needed(
                 update_if_needed(d, "cbor_metadata",
                                  metadata[1].cbor_metadata),
                 "use_literal_content", metadata[1].use_literal_content),
             "bytecode_hash", metadata[1].bytecode_hash)

\* Version::to_string: the pre-release and build parts included
version_to_string(v) == <<v.major, v.minor, v.patch, v.pre, v.build>>

\* format!("{}.{}.{}", version.major, version.minor, version.patch)
format_version(v) == <<v.major, v.minor, v.patch>>

\* the library paths in the order of the BTreeMap<PathBuf, _> of Libraries:
\* absolute paths before relative ones, then component by component
LibPathOrder ==
    <<Abs(<<"lib", "@openzeppelin", "Math.sol">>), Abs(<<"src", "Lib.sol">>),
      <<"@openzeppelin", "Math.sol">>,
      <<"lib", "@openzeppelin", "Math.sol">>, <<"src", "Lib.sol">>>>

\* .collect() into the BTreeMap of Libraries: one entry per path, in path
\* order; of the entries inserted under one path the last one stays
RECURSIVE CollectFrom(_, _)
CollectFrom(libs, i) ==
    IF i > Len(LibPathOrder) THEN <<>>
    ELSE LET at == {j \in 1..Len(libs) : libs[j].file = LibPathOrder[i]}
             last == CHOOSE j \in at : \A k \in at : k <= j
         IN (IF at = {} THEN <<>> ELSE <<libs[last]>>)
               \o CollectFrom(libs, i + 1)

\* ProjectPathsConfig::resolve_import for a library path: the first
\* remapping whose name begins the path puts it under the remapping's
\* path below the root; a path no remapping begins stays as declared (a
\* file found under the root is joined with the root, which
\* with_stripped_file_prefixes takes off again)
RECURSIVE resolve_import(_, _)
resolve_import(file, remaps) ==
    IF remaps = <<>> THEN file
    ELSE LET r == Head(remaps)
         IN IF IsPrefix(r.name, file)
            THEN (IF IsPrefix(<<RootMark>>, r.path) THEN r.path
                  ELSE Abs(r.path)) \o Tail2(file, Len(r.name))
            ELSE resolve_import(file, Tail(remaps))

\* path_config.apply_lib_remappings(libs)
apply_lib_remappings(libs, remaps) ==
    CollectFrom([i \in 1..Len(libs) |->
                   [libs[i] EXCEPT !.file = resolve_import(@, remaps)]], 1)

\* .with_stripped_file_prefixes(&path_config.root)
with_stripped_file_prefixes(libs) ==
    CollectFrom([i \in 1..Len(libs) |->
                   [libs[i] EXCEPT !.file =
                       IF IsPrefix(<<RootMark>>, @) THEN Tail2(@, 1) ELSE @]],
                1)

\* format!("{}:{}:{}", path_to_lib, lib_name, address) for every library
\* of every file, in the order of the two maps
RECURSIVE lib_array(_)
lib_array(libs) ==
    IF libs = <<>> THEN <<>>
    ELSE [i \in 1..Len(Head(libs).info) |->
            <<Head(libs).file, Head(libs).info[i].name,
              Head(libs).info[i].address>>]
            \o lib_array(Tail(libs))

\* update_config_by_metadata(config, doc, meta, chain)
update_config_by_metadata(d, m, chain) ==
    LET d1 == SetKey(d, "chain_id", chain)
        d2 == SetKey(d1, "auto_detect_solc", FALSE)
    IN IF ~m.version_ok
       THEN [ok |-> FALSE, err |-> "compiler version", doc |-> d2]
       ELSE LET d3 == SetKey(d2, "solc_version", format_version(m.version))
            IN IF m.stop_after # None
               THEN [ok |-> FALSE, err |-> "stop_after should be None",
                     doc |-> d3]
               ELSE LET d4 == update_if_needed(d3, "evm_version", m.evm_version)
                        d5 == update_if_needed(d4, "via_ir", m.via_ir)
                        d6 == metadata_knobs(d5, m.metadata)
                        d7 == update_if_needed(d6, "optimizer", m.optimizer)
                        d8 == update_if_needed(d7, "optimizer_runs",
                                               m.optimizer_runs)
                        r9 == optimizer_details(Synth(d8), m.optimizer_details)
                    IN IF ~r9.ok THEN r9
                       ELSE Synth(SetKey(r9.doc, "libraries",
                              lib_array(with_stripped_file_prefixes(
                                  apply_lib_remappings(
                                      m.libraries,
                                      IF "remappings" \in DOMAIN r9.doc
                                      THEN r9.doc["remappings"]
                                      ELSE <<>>)))))

\* Config::update_at(root, f): the closure f edits the document and
\* answers whether to save it; an edit that is not saved is dropped, and
\* update_at returns Ok(()) either way
update_at(d, save, changed) ==
    [ok |-> TRUE, doc |-> IF save THEN changed ELSE d]

\* the foundry.toml the initializer writes
FreshDoc == [k \in {"src", "out", "libs"} |->
                IF k = "libs" THEN <<"lib">> ELSE k]

-----------------------------------------------------------------------------
(* Inputs *)

CloneArgsSet ==
    [keep_directory_structure : BOOLEAN, no_remappings_txt : BOOLEAN,
     api_key_empty : BOOLEAN, commit : BOOLEAN, chain : {ChainId}]

\* remappings the fetched settings can declare
DeclaredUniverse ==
    {Remapping(<<"@openzeppelin">>, <<"@openzeppelin", "contracts">>),
     Remapping(<<"ds">>, <<"contracts", "ds">>),
     Remapping(<<"v2">>, <<"contracts-v2", "x">>),
     Remapping(<<"util">>, <<"lib", "util">>)}

\* the lists of settings.remappings the runs draw from: none, one, or two
\* of which one is the lib remapping
DeclaredLists ==
    {<<>>} \cup {<<r>> : r \in DeclaredUniverse}
        \cup {d \in BoundedSeqs(DeclaredUniverse, 2) :
                /\ Len(d) = 2
                /\ d[1] # d[2]
                /\ d[1].name = <<"util">> \/ d[2].name = <<"util">>}

\* a compiler version as the explorer reports it: v0.8.19+<build>
Version(build) ==
    [major |-> "0", minor |-> "8", patch |-> "19", pre |-> "",
     build |-> build]

Metas(trees, declared, stops) ==
    [vyper : {FALSE}, tree : trees, remappings : declared,
     version_ok : {TRUE}, version : {Version("commit.7dd6d404")},
     stop_after : stops, evm_version : {None}, via_ir : {None},
     metadata : {None}, optimizer : {Some(TRUE)},
     optimizer_runs : {Some(200)}, optimizer_details : {None},
     libraries : {<<>>}]

NoMeta ==
    [vyper |-> FALSE, tree |-> {}, remappings |-> <<>>, version_ok |-> TRUE,
     version |-> Version(""), stop_after |-> None, evm_version |-> None,
     via_ir |-> None, metadata |-> None, optimizer |-> None,
     optimizer_runs |-> None, optimizer_details |-> None,
     libraries |-> <<>>]

VyperMeta == [NoMeta EXCEPT !.vyper = TRUE, !.tree = {<<"interfaces">>}]

\* the metadata of whole-pipeline runs
RunMetas == Metas(TreesUpTo(MaxFiles), {<<>>}, {None, Some("parsing")})

\* what client.contract_source_code(address) can answer
Responses ==
    {[ok |-> FALSE, items |-> <<>>], [ok |-> TRUE, items |-> <<>>],
     [ok |-> TRUE, items |-> <<VyperMeta>>],
     [ok |-> TRUE, items |-> <<VyperMeta, VyperMeta>>]}
        \cup {[ok |-> TRUE, items |-> <<m>>] : m \in RunMetas}
        \cup {[ok |-> TRUE, items |-> <<m, m>>] :
                m \in Metas({{<<"src", "A">>}}, {<<>>}, {None})}

EmptyFs == [p \in {} |-> Dir]

NoDump == DumpResult([fs |-> EmptyFs, rem |-> <<>>, moves |-> <<>>,
                      removed |-> {}, err |-> "", at |-> <<>>,
                      from |-> <<>>],
                     <<>>, FALSE, FALSE)

NoCloneMeta ==
    [present |-> FALSE, readonly |-> FALSE, path |-> <<>>,
     target_contract |-> "", creation_transaction |-> "", deployer |-> "",
     storage_layout |-> NoLayout]

NoCalls == [source |-> 0, init |-> 0, sleep |-> 0, compile |-> 0,
            creation |-> 0, meta_writes |-> 0, git_add |-> 0,
            git_commit |-> 0]

-----------------------------------------------------------------------------
(* CloneArgs::run *)

\* a call that is made a second time
BumpTwice(c, k) == [c EXCEPT ![k] = @ + 2]

Bump(c, k) == [c EXCEPT ![k] = @ + 1]

Stage(name, ok) == [stage |-> name, ok |-> ok]

\* a `?` that propagates an error out of run
Abort(name, e) ==
    /\ pc' = "Failed"
    /\ err' = e
    /\ log' = Append(log, Stage(name, FALSE))

\* a stage that returned Ok
Proceed(name, next) ==
    /\ pc' = next
    /\ err' = err
    /\ log' = Append(log, Stage(name, TRUE))

\* collect_metadata_from_client without its two ensure! lines: the first
\* entry of a non-empty answer is taken as it is
collect_metadata_lenient(resp) ==
    IF ~resp.ok THEN [ok |-> FALSE, err |-> "explorer error", meta |-> NoMeta]
    ELSE IF Len(resp.items) = 0
    THEN [ok |-> FALSE, err |-> "contract not found or ill-formed",
          meta |-> NoMeta]
    ELSE [ok |-> TRUE, err |-> "", meta |-> resp.items[1]]

\* collect_metadata_from_client on the explorer's answer
collect_metadata_from_client(resp) ==
    IF ~resp.ok THEN [ok |-> FALSE, err |-> "explorer error", meta |-> NoMeta]
    ELSE IF Len(resp.items) # 1
    THEN [ok |-> FALSE, err |-> "contract not found or ill-formed",
          meta |-> NoMeta]
    ELSE IF resp.items[1].vyper
    THEN [ok |-> FALSE, err |-> "Vyper contracts are not supported",
          meta |-> NoMeta]
    ELSE [ok |-> TRUE, err |-> "", meta |-> resp.items[1]]

\* step 1 of run
FetchMetadata ==
    /\ pc = "Start"
    /\ \E resp \in Responses :
         LET r == collect_metadata_from_client(resp)
         IN /\ calls' = Bump(calls, "source")
            /\ answer' = resp
            /\ meta' = r.meta
            /\ IF r.ok THEN Proceed("fetch", "Init")
               ELSE Abort("fetch", r.err)
    /\ UNCHANGED <<args, fs, fsBefore, dump, doc, found, creation, cloneMeta,
                   remappingsTxt, artifacts, target, docBefore>>
    /\ UNCHANGED libVars

\* the files InitArgs::run leaves in the root: the skeleton with the
\* sample contracts, and forge-std when the dependencies are installed
SampleFiles == {<<"src", "Counter.sol">>, <<"test", "Counter.t.sol">>,
                <<"script", "Counter.s.sol">>}

InitArgsRun(f, deps) ==
    LET dirs == {<<"src">>, <<"test">>, <<"script">>}
                  \cup (IF deps THEN {<<"lib">>, <<"lib", "forge-std">>}
                        ELSE {})
        files == SampleFiles \cup {<<"foundry.toml">>}
    IN [q \in DOMAIN f \cup dirs \cup files |->
            IF q \in files THEN <<"project">> \o q
            ELSE IF q \in dirs THEN Dir
            ELSE f[q]]

\* the order of the three fs::remove_file calls
SampleOrder == <<<<"src", "Counter.sol">>, <<"test", "Counter.t.sol">>,
                 <<"script", "Counter.s.sol">>>>

RECURSIVE RemoveInOrder(_, _, _)
RemoveInOrder(f, removable, i) ==
    IF i > Len(SampleOrder) THEN [ok |-> TRUE, fs |-> f]
    ELSE IF SampleOrder[i] \notin removable \/ ~Exists(f, SampleOrder[i])
    THEN [ok |-> FALSE, fs |-> f]
    ELSE RemoveInOrder([q \in DOMAIN f \ {SampleOrder[i]} |-> f[q]],
                       removable, i + 1)

\* the removals with their results dropped: what can be removed is
RemoveSamplesLenient(f, removable) ==
    [ok |-> TRUE, fs |-> [q \in DOMAIN f \ removable |-> f[q]]]

\* the three fs::remove_file(..)? calls of init_an_empty_project, one after
\* the other; `removable` are the files the file system lets go
RemoveSamples(f, removable) == RemoveInOrder(f, removable, 1)

\* step 2 of run: init_an_empty_project
InitProject ==
    /\ pc = "Init"
    /\ calls' = Bump(calls, "init")
    /\ \E init_ok \in BOOLEAN, deps \in BOOLEAN,
          removable \in SUBSET SampleFiles :
         IF ~init_ok
         THEN Abort("init", "Project init error") /\ UNCHANGED <<fs, doc>>
         ELSE LET r == RemoveSamples(InitArgsRun(fs, deps), removable)
              IN /\ fs' = r.fs
                 /\ doc' = FreshDoc
                 /\ IF r.ok THEN Proceed("init", "Dump")
                    ELSE Abort("init", "remove_file failed")
    /\ UNCHANGED <<args, answer, meta, fsBefore, dump, found, creation,
                   cloneMeta, remappingsTxt, artifacts, target, docBefore>>
    /\ UNCHANGED libVars

\* step 3 of run, parse_metadata: dump_sources
DumpSources ==
    /\ pc = "Dump"
    /\ \E plan \in Plans(meta.tree) :
         LET r == dump_sources(fs, meta, args.keep_directory_structure, plan)
         IN /\ fsBefore' = fs
            /\ fs' = r.fs
            /\ dump' = r
            /\ IF r.ok THEN Proceed("materialize", "Remappings")
               ELSE Abort("materialize", r.err)
    /\ UNCHANGED <<args, answer, meta, doc, found, creation, cloneMeta, calls,
                   remappingsTxt, artifacts, target, docBefore>>
    /\ UNCHANGED libVars

\* the first Config::update_at without its auto_detect_remappings line
WriteRemappingsOnly ==
    /\ pc = "Remappings"
    /\ doc' = update_at(doc, TRUE,
                        SetKey(doc, "remappings", dump.remappings)).doc
    /\ pc' = "Config"
    /\ UNCHANGED <<args, answer, meta, fs, fsBefore, dump, found, creation,
                   cloneMeta, calls, remappingsTxt, artifacts, target,
                   docBefore, log, err>>
    /\ UNCHANGED libVars

\* parse_metadata: the first Config::update_at, whose closure returns true
WriteRemappings ==
    /\ pc = "Remappings"
    /\ LET u == update_at(doc, TRUE,
                          SetKey(SetKey(doc, "remappings", dump.remappings),
                                 "auto_detect_remappings", FALSE))
       IN /\ doc' = u.doc
          /\ IF u.ok THEN pc' = "Config" /\ UNCHANGED <<log, err>>
             ELSE Abort("materialize", "update_at")
    /\ UNCHANGED <<args, answer, meta, fs, fsBefore, dump, found, creation,
                   cloneMeta, calls, remappingsTxt, artifacts, target, docBefore>>
    /\ UNCHANGED libVars

\* UpdateConfig with a closure that answers true whatever synthesis returned
UpdateConfigSaving ==
    /\ pc = "Config"
    /\ LET r == update_config_by_metadata(doc, meta, args.chain)
           u == update_at(doc, TRUE, r.doc)
       IN /\ docBefore' = doc
          /\ doc' = u.doc
          /\ IF u.ok
             THEN /\ pc' = "Export"
                  /\ log' = Append(log, Stage("synthesize", r.ok))
                  /\ err' = err
             ELSE Abort("synthesize", r.err)
    /\ UNCHANGED <<args, answer, meta, fs, fsBefore, dump, found, creation,
                   cloneMeta, calls, remappingsTxt, artifacts, target>>
    /\ UNCHANGED libVars

\* parse_metadata: the second Config::update_at. The closure hands
\* update_config_by_metadata(..).is_ok() to update_at as the save flag; the
\* `?` sees the result of update_at. The stage is logged with the result
\* of update_config_by_metadata.
UpdateConfig ==
    /\ pc = "Config"
    /\ LET r == update_config_by_metadata(doc, meta, args.chain)
           u == update_at(doc, r.ok, r.doc)
       IN /\ docBefore' = doc
          /\ doc' = u.doc
          /\ IF u.ok
             THEN /\ pc' = "Export"
                  /\ log' = Append(log, Stage("synthesize", r.ok))
                  /\ err' = err
             ELSE Abort("synthesize", r.err)
    /\ UNCHANGED <<args, answer, meta, fs, fsBefore, dump, found, creation,
                   cloneMeta, calls, remappingsTxt, artifacts, target>>
    /\ UNCHANGED libVars

RemappingsTxt == <<"remappings.txt">>

\* the export without its ensure!: an existing remappings.txt is written over
ExportRemappingsOver ==
    /\ pc = "Export"
    /\ IF args.no_remappings_txt
       THEN /\ pc' = "Cooldown"
            /\ UNCHANGED <<fs, doc, remappingsTxt, log, err>>
       ELSE \E written \in BOOLEAN :
              IF written
              THEN /\ fs' = [q \in DOMAIN fs \cup {RemappingsTxt} |->
                               IF q = RemappingsTxt THEN <<"project">> \o q
                               ELSE fs[q]]
                   /\ remappingsTxt' = IF "remappings" \in DOMAIN doc
                                       THEN doc["remappings"] ELSE <<>>
                   /\ doc' = update_at(doc, TRUE,
                                       RemoveKey(doc, "remappings")).doc
                   /\ Proceed("export", "Cooldown")
              ELSE /\ UNCHANGED <<fs, remappingsTxt, err>>
                   /\ doc' = update_at(doc, FALSE,
                                       RemoveKey(doc, "remappings")).doc
                   /\ pc' = "Cooldown"
                   /\ log' = Append(log, Stage("export", FALSE))
    /\ UNCHANGED <<args, answer, meta, fsBefore, dump, found, creation,
                   cloneMeta, calls, artifacts, target, docBefore>>
    /\ UNCHANGED libVars

\* parse_metadata: remappings.txt. The closure of the third
\* Config::update_at answers false when fs::write fails, and update_at
\* returns Ok either way: the stage is logged with the result of the write.
ExportRemappings ==
    /\ pc = "Export"
    /\ IF args.no_remappings_txt
       THEN /\ pc' = "Cooldown"
            /\ UNCHANGED <<fs, doc, remappingsTxt, log, err>>
       ELSE IF Exists(fs, RemappingsTxt)
       THEN /\ Abort("export", "remappings.txt already exists")
            /\ UNCHANGED <<fs, doc, remappingsTxt>>
       ELSE \E written \in BOOLEAN :
              IF written
              THEN /\ fs' = [q \in DOMAIN fs \cup {RemappingsTxt} |->
                               IF q = RemappingsTxt THEN <<"project">> \o q
                               ELSE fs[q]]
                   /\ remappingsTxt' = IF "remappings" \in DOMAIN doc
                                       THEN doc["remappings"] ELSE <<>>
                   /\ doc' = update_at(doc, TRUE,
                                       RemoveKey(doc, "remappings")).doc
                   /\ Proceed("export", "Cooldown")
              ELSE /\ UNCHANGED <<fs, remappingsTxt, err>>
                   /\ doc' = update_at(doc, FALSE,
                                       RemoveKey(doc, "remappings")).doc
                   /\ pc' = "Cooldown"
                   /\ log' = Append(log, Stage("export", FALSE))
    /\ UNCHANGED <<args, answer, meta, fsBefore, dump, found, creation,
                   cloneMeta, calls, artifacts, target, docBefore>>
    /\ UNCHANGED libVars

\* step 4 of run: the wait before the second request
Cooldown ==
    /\ pc = "Cooldown"
    /\ calls' = IF args.api_key_empty THEN Bump(calls, "sleep") ELSE calls
    /\ pc' = "Compile"
    /\ UNCHANGED <<args, answer, meta, fs, fsBefore, dump, doc, found,
                   creation, cloneMeta, log, err, remappingsTxt, artifacts,
                   target, docBefore>>
    /\ UNCHANGED libVars

\* collect_compilation_metadata up to the creation-data request
CompileAndFind ==
    /\ pc = "Compile"
    /\ calls' = Bump(calls, "compile")
    /\ \E r \in Extracted :
         /\ found' = r
         /\ IF r.ok
            THEN pc' = "Creation" /\ UNCHANGED <<log, err>>
            ELSE Abort("fingerprint", r.err)
    /\ UNCHANGED <<args, answer, meta, fs, fsBefore, dump, doc, creation,
                   cloneMeta, remappingsTxt, artifacts, target, docBefore>>
    /\ UNCHANGED libVars

NoCreation == [asked |-> FALSE, ok |-> FALSE, transaction_hash |-> "",
               contract_creator |-> ""]

\* what client.contract_creation_data(address) can answer
CreationAnswers ==
    {[asked |-> TRUE, ok |-> FALSE, transaction_hash |-> "",
      contract_creator |-> ""],
     [asked |-> TRUE, ok |-> TRUE, transaction_hash |-> "0xtx",
      contract_creator |-> "0xdeployer"]}

\* fs::write(.clone.meta, ..) and set_readonly(true): a file that exists
\* read-only cannot be written
WriteCloneMeta(cm, record) ==
    IF cm.present /\ cm.readonly
    THEN [ok |-> FALSE, err |-> "permission denied", written |-> FALSE,
          file |-> cm]
    ELSE [ok |-> TRUE, err |-> "", written |-> TRUE,
          file |-> [record EXCEPT !.present = TRUE, !.readonly = TRUE]]

\* the clone record written without the `?` on the creation-data answer
persist_unchecked(cm, fnd, cr) ==
    WriteCloneMeta(cm,
        [present |-> FALSE, readonly |-> FALSE,
         path |-> fnd.main_file,
         target_contract |-> ContractName,
         creation_transaction |-> cr.transaction_hash,
         deployer |-> cr.contract_creator,
         storage_layout |-> fnd.storage_layout])

\* collect_compilation_metadata after the creation-data request: the `?`
\* on its answer, the CloneMetadata, the write
persist(cm, fnd, cr) ==
    IF ~cr.ok
    THEN [ok |-> FALSE, err |-> "explorer error", written |-> FALSE,
          file |-> cm]
    ELSE WriteCloneMeta(cm,
            [present |-> FALSE, readonly |-> FALSE,
             path |-> fnd.main_file,
             target_contract |-> ContractName,
             creation_transaction |-> cr.transaction_hash,
             deployer |-> cr.contract_creator,
             storage_layout |-> fnd.storage_layout])

\* collect_compilation_metadata from the creation-data request on
PersistCloneMeta ==
    /\ pc = "Creation"
    /\ \E cr \in CreationAnswers :
         LET w == persist(cloneMeta, found, cr)
         IN /\ creation' = cr
            /\ cloneMeta' = w.file
            /\ calls' = IF w.written
                        THEN Bump(Bump(calls, "creation"), "meta_writes")
                        ELSE Bump(calls, "creation")
            /\ IF w.ok THEN Proceed("fingerprint", "Commit")
               ELSE Abort("fingerprint", w.err)
    /\ UNCHANGED <<args, answer, meta, fs, fsBefore, dump, doc, found,
                   remappingsTxt, artifacts, target, docBefore>>
    /\ UNCHANGED libVars

\* step 5 of run without its `if install.commit`
GitCommitAlways ==
    /\ pc = "Commit"
    /\ \E add_ok \in BOOLEAN, commit_ok \in BOOLEAN :
         IF ~add_ok
         THEN /\ calls' = Bump(calls, "git_add")
              /\ Abort("commit", "git add failed")
         ELSE /\ calls' = Bump(Bump(calls, "git_add"), "git_commit")
              /\ IF commit_ok THEN Proceed("commit", "Done")
                 ELSE Abort("commit", "git commit failed")
    /\ UNCHANGED <<args, answer, meta, fs, fsBefore, dump, doc, found,
                   creation, cloneMeta, remappingsTxt, artifacts, target,
                   docBefore>>
    /\ UNCHANGED libVars

\* step 5 of run: git add --all, git commit
GitCommit ==
    /\ pc = "Commit"
    /\ IF ~args.commit
       THEN pc' = "Done" /\ UNCHANGED <<calls, log, err>>
       ELSE \E add_ok \in BOOLEAN, commit_ok \in BOOLEAN :
              IF ~add_ok
              THEN /\ calls' = Bump(calls, "git_add")
                   /\ Abort("commit", "git add failed")
              ELSE /\ calls' = Bump(Bump(calls, "git_add"), "git_commit")
                   /\ IF commit_ok THEN Proceed("commit", "Done")
                      ELSE Abort("commit", "git commit failed")
    /\ UNCHANGED <<args, answer, meta, fs, fsBefore, dump, doc, found,
                   creation, cloneMeta, remappingsTxt, artifacts, target, docBefore>>
    /\ UNCHANGED libVars

NoAnswer == [ok |-> FALSE, items |-> <<>>]

\* the variables no run has touched yet
Untouched ==
    /\ answer = NoAnswer
    /\ meta = NoMeta
    /\ fsBefore = EmptyFs
    /\ dump = NoDump
    /\ creation = NoCreation
    /\ cloneMeta = NoCloneMeta
    /\ calls = NoCalls
    /\ log = <<>>
    /\ err = ""
    /\ remappingsTxt = <<>>
    /\ docBefore = EmptyFs

Init ==
    /\ pc = "Start"
    /\ args \in CloneArgsSet
    /\ fs = EmptyFs
    /\ doc = EmptyFs
    /\ found = NotFound
    /\ artifacts = <<>>
    /\ target = ""
    /\ Untouched
    /\ LibIdle

Next ==
    \/ FetchMetadata
    \/ InitProject
    \/ DumpSources
    \/ WriteRemappings
    \/ UpdateConfig
    \/ ExportRemappings
    \/ Cooldown
    \/ CompileAndFind
    \/ PersistCloneMeta
    \/ GitCommit

Spec == Init /\ [][Next]_vars

-----------------------------------------------------------------------------
(* dump_sources on its own, on the project roots it can be handed *)

Skeleton(withSrc, withLib, withStd) ==
    LET dirs == {<<"test">>, <<"script">>}
                  \cup (IF withSrc THEN {<<"src">>} ELSE {})
                  \cup (IF withLib THEN {<<"lib">>} ELSE {})
                  \cup (IF withStd THEN {<<"lib", "forge-std">>} ELSE {})
    IN [q \in dirs \cup {<<"foundry.toml">>} |->
            IF q \in dirs THEN Dir ELSE <<"project">> \o q]

\* what a project can hold besides the skeleton
Extras == {<<"src", "A">>, <<"src", "interfaces">>, <<"lib", "hardhat">>,
           <<"lib", "@openzeppelin">>, <<"lib", "A">>, <<"node_modules">>}

WithExtra(f, p) ==
    [q \in DOMAIN f \cup {p} |-> IF q = p THEN <<"project">> \o p ELSE f[q]]

ProjectRoots ==
    {Skeleton(TRUE, TRUE, TRUE), Skeleton(TRUE, TRUE, FALSE),
     Skeleton(TRUE, FALSE, FALSE), Skeleton(FALSE, TRUE, TRUE)}
        \cup {WithExtra(Skeleton(TRUE, TRUE, TRUE), p) : p \in Extras}

InitDump ==
    /\ pc = "Dump"
    /\ args \in [keep_directory_structure : BOOLEAN,
                 no_remappings_txt : {TRUE}, api_key_empty : {FALSE},
                 commit : {FALSE}, chain : {ChainId}]
    /\ answer = NoAnswer
    /\ meta \in Metas(TreesUpTo(MaxFiles), DeclaredLists, {None})
    /\ fs \in ProjectRoots
    /\ fsBefore = EmptyFs
    /\ dump = NoDump
    /\ doc = FreshDoc
    /\ found = NotFound
    /\ creation = NoCreation
    /\ cloneMeta = NoCloneMeta
    /\ calls = NoCalls
    /\ log = <<>>
    /\ err = ""
    /\ remappingsTxt = <<>>
    /\ artifacts = <<>>
    /\ target = ""
    /\ docBefore = EmptyFs
    /\ LibIdle

NextDump == DumpSources

SpecDump == InitDump /\ [][NextDump]_vars

-----------------------------------------------------------------------------
(* find_main_contract on its own *)

FindMainContract ==
    /\ pc = "Find"
    /\ found' = find_main_contract(artifacts, target)
    /\ pc' = "Found"
    /\ UNCHANGED <<args, answer, meta, fs, fsBefore, dump, doc, creation,
                   cloneMeta, calls, log, err, remappingsTxt, artifacts,
                   target, docBefore>>
    /\ UNCHANGED libVars

InitFind ==
    /\ pc = "Find"
    /\ artifacts \in BoundedSeqs(Artifacts, MaxArtifacts)
    /\ target \in {ContractName, "Other", "Absent"}
    /\ args = [keep_directory_structure |-> FALSE, no_remappings_txt |-> TRUE,
               api_key_empty |-> FALSE, commit |-> FALSE, chain |-> ChainId]
    /\ fs = EmptyFs
    /\ doc = EmptyFs
    /\ found = find_main_contract(<<>>, "")
    /\ Untouched
    /\ LibIdle

NextFind == FindMainContract

SpecFind == InitFind /\ [][NextFind]_vars

-----------------------------------------------------------------------------
(* parse_metadata from the first Config::update_at on: documents that
   already carry settings, and the settings an explorer can report *)

NoDetailFields == [k \in {DetailKeys[i] : i \in 1..Len(DetailKeys)} |-> None]
NoYulFields == [k \in {YulKeys[i] : i \in 1..Len(YulKeys)} |-> None]

\* OptimizerDetails as the explorer reports them
Details(fields, yul) == [fields |-> fields, yul_details |-> yul]

ReportedDetails ==
    {None,
     Some(Details(NoDetailFields, None)),
     Some(Details([NoDetailFields EXCEPT !["inliner"] = Some(FALSE)], None)),
     Some(Details([NoDetailFields EXCEPT !["yul"] = Some(TRUE)],
                  Some([NoYulFields EXCEPT
                           !["optimizerSteps"] = Some("dhfoDgvulfnTUtnIf")]))),
     Some(Details(NoDetailFields, Some(NoYulFields)))}

ReportedMetadata ==
    {None,
     Some([cbor_metadata |-> None, use_literal_content |-> Some(TRUE),
           bytecode_hash |-> Some("none")])}

ReportedLibraries ==
    LET Lib == [file |-> <<"src", "Lib.sol">>,
                info |-> <<[name |-> "Lib", address |-> "0xaa"]>>]
        Math == [file |-> <<"@openzeppelin", "Math.sol">>,
                 info |-> <<[name |-> "Math", address |-> "0xbb"]>>]
        Moved == [file |-> <<"lib", "@openzeppelin", "Math.sol">>,
                  info |-> <<[name |-> "Math", address |-> "0xcc"]>>]
    IN {<<>>, <<Lib>>, <<Math, Lib>>, <<Math, Moved>>}

ConfigMetas ==
    [vyper : {FALSE}, tree : {{}}, remappings : {<<>>},
     version_ok : BOOLEAN,
     version : {Version("commit.7dd6d404"),
                [Version("") EXCEPT !.pre = "nightly"]},
     stop_after : {None, Some("parsing")},
     evm_version : {None, Some("london")},
     via_ir : {None, Some(TRUE)},
     metadata : ReportedMetadata,
     optimizer : {None, Some(TRUE)},
     optimizer_runs : {None, Some(200)},
     optimizer_details : ReportedDetails,
     libraries : ReportedLibraries]

\* a foundry.toml whose profile already carries compiler settings
PresetDoc ==
    [k \in DOMAIN FreshDoc \cup
           {"chain_id", "auto_detect_solc", "solc_version", "evm_version",
            "optimizer", "optimizer_runs", "optimizer_details", "libraries"}
     |-> CASE k \in DOMAIN FreshDoc -> FreshDoc[k]
           [] k = "chain_id" -> 5
           [] k = "auto_detect_solc" -> TRUE
           [] k = "solc_version" -> <<"0", "7", "6">>
           [] k = "evm_version" -> "paris"
           [] k = "optimizer" -> FALSE
           [] k = "optimizer_runs" -> 1
           [] k = "optimizer_details" ->
                Table([j \in {"peephole", "yulDetails"} |->
                         IF j = "peephole" THEN TRUE
                         ELSE Table([i \in {"stackAllocation"} |-> TRUE])])
           [] k = "libraries" -> <<<<<<"src", "Old.sol">>, "Old", "0xdd">>>>]

ConfigDocs ==
    {FreshDoc, PresetDoc, SetKey(FreshDoc, "evm_version", "paris"),
     SetKey(FreshDoc, "optimizer_details",
            Table([j \in {"peephole"} |-> TRUE]))}

\* config.chain: mainnet by default, or the chain the caller names
Chains == {ChainId, 10}

\* a project root handed to parse_metadata: without a remappings.txt, or
\* with one that somebody wrote before
ExistingTxt == <<"existing">>
ConfigRoots ==
    {EmptyFs, [q \in {RemappingsTxt} |-> ExistingTxt]}

\* what dump_sources returned
ConfigDump ==
    [NoDump EXCEPT !.remappings =
        <<Remapping(<<"@openzeppelin">>, <<"lib", "@openzeppelin">>)>>]

InitConfig ==
    /\ pc = "Remappings"
    /\ doc \in ConfigDocs
    /\ meta \in ConfigMetas
    /\ args \in [keep_directory_structure : {FALSE},
                 no_remappings_txt : BOOLEAN, api_key_empty : {FALSE},
                 commit : {FALSE}, chain : Chains]
    /\ answer = NoAnswer
    /\ fs \in ConfigRoots
    /\ fsBefore = fs
    /\ dump = ConfigDump
    /\ found = find_main_contract(<<>>, "")
    /\ creation = NoCreation
    /\ cloneMeta = NoCloneMeta
    /\ calls = NoCalls
    /\ log = <<>>
    /\ err = ""
    /\ remappingsTxt = <<>>
    /\ artifacts = <<>>
    /\ target = ""
    /\ docBefore = EmptyFs
    /\ LibIdle

NextConfig ==
    \/ WriteRemappings
    \/ UpdateConfig
    \/ ExportRemappings

SpecConfig == InitConfig /\ [][NextConfig]_vars

-----------------------------------------------------------------------------
(* collect_compilation_metadata on its own, on a root that may hold the
   clone record of an earlier run *)

\* the .clone.meta an earlier run left: read-only as that run set it, or
\* made writable since
OldRecords ==
    [present : {TRUE}, readonly : BOOLEAN,
     path : {<<"src", "Old.sol">>},
     target_contract : {ContractName, "Old"},
     creation_transaction : {"0xold"},
     deployer : {"0xolddeployer"},
     storage_layout : {"L1", "L0"}]

\* collect_compilation_metadata up to the creation-data request, on the
\* output `artifacts` of a compile_project that succeeds or fails
CompileAndFindIn ==
    /\ pc = "Compile"
    /\ calls' = Bump(calls, "compile")
    /\ \E compiled \in BOOLEAN :
         LET r == Extract([ok |-> compiled, artifacts |-> artifacts],
                          ContractName)
         IN /\ found' = r
            /\ IF r.ok
               THEN pc' = "Creation" /\ UNCHANGED <<log, err>>
               ELSE Abort("fingerprint", r.err)
    /\ UNCHANGED <<args, answer, meta, fs, fsBefore, dump, doc, creation,
                   cloneMeta, remappingsTxt, artifacts, target, docBefore>>
    /\ UNCHANGED libVars

InitPersist ==
    /\ pc = "Compile"
    /\ cloneMeta \in {NoCloneMeta} \cup OldRecords
    /\ args = [keep_directory_structure |-> FALSE, no_remappings_txt |-> TRUE,
               api_key_empty |-> FALSE, commit |-> FALSE, chain |-> ChainId]
    /\ answer = NoAnswer
    /\ meta = NoMeta
    /\ fs = EmptyFs
    /\ fsBefore = EmptyFs
    /\ dump = NoDump
    /\ doc = EmptyFs
    /\ found = NotFound
    /\ creation = NoCreation
    /\ calls = NoCalls
    /\ log = <<>>
    /\ err = ""
    /\ remappingsTxt = <<>>
    /\ artifacts \in BoundedSeqs(Artifacts, MaxArtifacts)
    /\ target = ContractName
    /\ docBefore = EmptyFs
    /\ LibIdle

NextPersist ==
    \/ CompileAndFindIn
    \/ PersistCloneMeta

SpecPersist == InitPersist /\ [][NextPersist]_vars

-----------------------------------------------------------------------------
(* EthereumWallet as the wallet of FoundryNetwork                          *)
(* (crates/primitives/src/network/wallet.rs)                               *)

\* the variants of FoundryTypedTx, and of FoundryTxEnvelope
TxTypes == {"Legacy", "Eip2930", "Eip1559", "Eip4844", "Eip7702", "Deposit",
            "Tempo"}

Addresses == {"0xa1", "0xa2", "0xa3"}

\* what TxSigner::sign_transaction(&signer, &mut inner) can do: fail, or
\* give a signature, having left the transaction alone or filled it in
SignOutcomes == [ok : BOOLEAN, filled : BOOLEAN]

SignerNotFound == "Signer not found"

SignError(e) == [ok |-> FALSE, err |-> e, envelope |-> None]
SignedAs(variant, tx, sig) ==
    [ok |-> TRUE, err |-> "",
     envelope |-> Some([variant |-> variant, tx |-> tx, signature |-> sig])]

\* EthereumWallet::signer_by_address
signer_by_address(w, sender) == IF sender \in w THEN Some(sender) ELSE None

\* a signed arm that signs with whatever it gets, without the ok_or(..)?
sign_unguarded(w, sender, variant, inner, outcome) ==
    IF ~outcome.ok THEN SignError("signing failed")
    ELSE SignedAs(variant,
                  IF outcome.filled THEN <<"filled", inner>> ELSE inner,
                  IF variant = "Tempo" THEN <<"tempo", <<"sig", sender>>>>
                  ELSE <<"sig", sender>>)

\* one signed arm of the match: signer_by_address(sender).ok_or(..)?, then
\* sign_transaction(..).await?, then Variant(inner.into_signed(sig)); the
\* Tempo arm converts the signature into a TempoSignature first
sign(w, sender, variant, inner, outcome) ==
    LET signer == signer_by_address(w, sender)
    IN IF signer = None THEN SignError(SignerNotFound)
       ELSE IF ~outcome.ok THEN SignError("signing failed")
       ELSE SignedAs(variant,
                     IF outcome.filled THEN <<"filled", inner>> ELSE inner,
                     IF variant = "Tempo"
                     THEN <<"tempo", <<"sig", signer[1]>>>>
                     ELSE <<"sig", signer[1]>>)

\* sign_transaction_from with the Deposit arm signing like the others
sign_transaction_from_all(w, sender, tx, outcome) ==
    sign(w, sender, tx.variant, tx.inner, outcome)

\* NetworkWallet<FoundryNetwork>::sign_transaction_from
sign_transaction_from(w, sender, tx, outcome) ==
    IF tx.variant = "Deposit"
    THEN SignedAs("Deposit", tx.inner, <<"sealed">>)
    ELSE sign(w, sender, tx.variant, tx.inner, outcome)

\* every variable of `forge clone` at rest
CloneIdle ==
    /\ args = [keep_directory_structure |-> FALSE, no_remappings_txt |-> TRUE,
               api_key_empty |-> FALSE, commit |-> FALSE, chain |-> ChainId]
    /\ fs = EmptyFs
    /\ doc = EmptyFs
    /\ found = find_main_contract(<<>>, "")
    /\ artifacts = <<>>
    /\ target = ""
    /\ Untouched

SignTransactionFrom ==
    /\ pc = "Sign"
    /\ \E outcome \in SignOutcomes :
         signed' = sign_transaction_from(wallet, txRequest.sender,
                                         txRequest.tx, outcome)
    /\ pc' = "Signed"
    /\ UNCHANGED <<args, answer, meta, fs, fsBefore, dump, doc, found,
                   creation, cloneMeta, calls, log, err, remappingsTxt,
                   artifacts, target, docBefore>>
    /\ UNCHANGED <<wallet, txRequest, lintExpr, lintOut>>

InitWallet ==
    /\ pc = "Sign"
    /\ wallet \in SUBSET Addresses
    /\ txRequest \in [sender : Addresses,
                     tx : [variant : TxTypes, inner : {"tx1", "tx2"}]]
    /\ signed = <<>>
    /\ lintExpr = <<>>
    /\ lintOut = <<>>
    /\ CloneIdle

NextWallet == SignTransactionFrom

SpecWallet == InitWallet /\ [][NextWallet]_vars

-----------------------------------------------------------------------------
(* The unsafe-typecast lint (crates/lint/src/sol/high/unsafe_typecast.rs)  *)

\* hir::Expr by its kind; an expression is a tuple with the kind in front.
\* A hir::Type is <<"Elementary", name>> or, for any other kind, <<"Custom">>
Lit(k) == <<"Lit", k>>
TypeCall(ty) == <<"TypeCall", ty>>
Binary(left, right) == <<"Binary", left, right>>
Unary(operand) == <<"Unary", operand>>
Call(callee, call_args) == <<"Call", callee, call_args>>

Leaves ==
    {Lit("Bool"), Lit("Number"), Lit("Str"), TypeCall(<<"Elementary", "uint8">>),
     TypeCall(<<"Custom">>), <<"Ident">>, <<"Member">>, Call(<<"Ident">>, <<>>)}

\* the operands a binary operation is built with on its other side: one
\* whose type is inferred, one that stops the inference, one that is not
\* inferred
Operands == {Lit("Bool"), Lit("Number"), <<"Ident">>}

RECURSIVE ExprsUpTo(_)
ExprsUpTo(d) ==
    IF d = 0 THEN Leaves
    ELSE LET E == ExprsUpTo(d - 1)
         IN E \cup {Unary(e) : e \in E}
              \cup {Binary(l, r) : l \in E, r \in Operands}
              \cup {Binary(l, r) : l \in Operands, r \in E}

\* what a function of the lint gives: a value, or the panic of a todo!()
Returns(v) == [panic |-> FALSE, value |-> v]
Panic == [panic |-> TRUE, value |-> None]

\* infer_expr_type
RECURSIVE infer_expr_type(_)
infer_expr_type(expr) ==
    CASE expr[1] = "Lit" ->
           (CASE expr[2] = "Bool" -> Returns(Some("bool"))
              [] expr[2] = "Number" -> Panic
              [] OTHER -> Returns(None))
      [] expr[1] = "TypeCall" ->
           (IF expr[2][1] = "Elementary" THEN Returns(Some(expr[2][2]))
            ELSE Returns(None))
      [] expr[1] = "Binary" ->
           LET left_type == infer_expr_type(expr[2])
           IN IF left_type.panic \/ left_type.value = None THEN left_type
              ELSE LET right_type == infer_expr_type(expr[3])
                   IN IF right_type.panic \/ right_type.value = None
                      THEN right_type
                      ELSE Panic
      [] expr[1] = "Unary" -> infer_expr_type(expr[2])
      [] OTHER -> Returns(None)

\* check_unsafe_typecast
check_unsafe_typecast(ty, expr) ==
    LET expr_type_kind == infer_expr_type(expr)
    IN IF expr_type_kind.panic THEN Panic
       ELSE IF expr_type_kind.value = None THEN Returns(FALSE)
       ELSE IF ty[1] # "Elementary" THEN Returns(FALSE)
       ELSE Panic

\* the span of the i-th argument of the call
SpanOfArg(i) == <<"arg", i>>

\* LateLintPass::check_expr
check_expr(expr) ==
    IF expr[1] = "Call" /\ expr[2][1] = "TypeCall" /\ expr[3] # <<>>
    THEN LET r == check_unsafe_typecast(expr[2][2], expr[3][1])
         IN IF r.panic THEN [state |-> "panicked", emitted |-> <<>>]
            ELSE IF r.value
            THEN [state |-> "returned",
                  emitted |-> <<[lint |-> "unsafe-typecast",
                                 span |-> SpanOfArg(1)]>>]
            ELSE [state |-> "returned", emitted |-> <<>>]
    ELSE [state |-> "returned", emitted |-> <<>>]

\* the expressions the pass is called on: calls of a type or of a function
\* with no, one or two arguments, and expressions that are no calls
LintedExprs ==
    LET callees == {TypeCall(<<"Elementary", "uint8">>), TypeCall(<<"Custom">>),
                    <<"Ident">>}
        first == ExprsUpTo(MaxDepth)
    IN Leaves
         \cup {Call(c, <<>>) : c \in callees}
         \cup {Call(c, <<e>>) : c \in callees, e \in first}
         \cup {Call(c, <<e, Lit("Bool")>>) : c \in callees, e \in first}

CheckExpr ==
    /\ pc = "Lint"
    /\ lintOut' = check_expr(lintExpr)
    /\ pc' = "Linted"
    /\ UNCHANGED <<args, answer, meta, fs, fsBefore, dump, doc, found,
                   creation, cloneMeta, calls, log, err, remappingsTxt,
                   artifacts, target, docBefore>>
    /\ UNCHANGED <<wallet, txRequest, signed, lintExpr>>

InitLint ==
    /\ pc = "Lint"
    /\ lintExpr \in LintedExprs
    /\ lintOut = <<>>
    /\ wallet = {}
    /\ txRequest = <<>>
    /\ signed = <<>>
    /\ CloneIdle

NextLint == CheckExpr

SpecLint == InitLint /\ [][NextLint]_vars

-----------------------------------------------------------------------------
(* Properties of CloneArgs::run *)

StageOrder == <<"fetch", "init", "materialize", "synthesize", "export",
                "fingerprint", "commit">>

StageRank(name) == CHOOSE i \in 1..Len(StageOrder) : StageOrder[i] = name

\* C1: in every run the stages occur only in the order fetch, init,
\* materialize, synthesize, compile and fingerprint, commit; a stage starts
\* only after its predecessor succeeded; once a stage has failed no later
\* stage is executed and the run has ended in failure.
C1_StagesInOrderAndFailureIsFinal ==
    /\ \A i, j \in 1..Len(log) :
          i < j => StageRank(log[i].stage) < StageRank(log[j].stage)
    /\ \A i \in 1..Len(log) : ~log[i].ok => (i = Len(log) /\ pc = "Failed")
    /\ calls.compile > 0 =>
          \E i \in 1..Len(log) : log[i].stage = "synthesize" /\ log[i].ok

\* the explorer answered, and its answer is one that must be rejected
Rejected ==
    /\ calls.source > 0
    /\ answer.ok
    /\ Len(answer.items) # 1 \/ answer.items[1].vyper

\* C2: an answer with zero or more than one entry, or whose single entry
\* is a Vyper contract, makes the run fail before the project is
\* initialized: nothing exists under the root and no later step has run.
C2_RejectedAnswerAbortsBeforeInit ==
    Rejected =>
        /\ pc = "Failed"
        /\ err \in {"contract not found or ill-formed",
                    "Vyper contracts are not supported"}
        /\ fs = EmptyFs
        /\ doc = EmptyFs
        /\ calls.init = 0
        /\ calls.compile = 0
        /\ ~cloneMeta.present

\* a run that was answered with two entries and has failed
C2_TwoEntriesRejected ==
    /\ Rejected
    /\ Len(answer.items) = 2
    /\ pc = "Failed"

\* C3: when the fetched settings declare stop_after, once the run is past
\* config synthesis it has failed and the compiler was not invoked.
C3_StopAfterAbortsBeforeCompile ==
    (meta.stop_after # None
        /\ pc \notin {"Start", "Init", "Dump", "Remappings", "Config"})
    => (pc = "Failed" /\ calls.compile = 0)

\* the staged tree as write_to laid it out
StagedTree == WriteTo(EmptyFs, meta.tree)

\* what was moved by m lies at its destination as it was fetched
MovedIntact(m) ==
    \A q \in DOMAIN StagedTree :
        IsPrefix(m.from, q) =>
            LET d == m.to \o Tail2(q, Len(m.from))
            IN d \in DOMAIN fs /\ fs[d] = StagedTree[q]

UnderRemoved(p) == \E r \in dump.removed : IsPrefix(r, p)

\* C4: no move of dump_sources replaces an existing path, the forge-std
\* override apart: a move is made only to a destination that did not
\* exist, what an earlier move or the project put there stays as it was,
\* and a destination that exists makes dump_sources fail with
\* 'destination already exists', both paths left in place, the run failed
\* and no compile attempted.
C4_NoMoveReplacesAnExistingPath ==
    /\ \A i \in 1..Len(dump.moves) :
          /\ dump.moves[i].existed =>
                dump.moves[i].from = Staged \o <<"forge-std">>
          /\ ~UnderRemoved(dump.moves[i].to) => MovedIntact(dump.moves[i])
    /\ \A p \in DOMAIN fsBefore :
          ~UnderRemoved(p) => (p \in DOMAIN fs /\ fs[p] = fsBefore[p])
    /\ dump.err = "destination already exists" =>
          /\ pc = "Failed"
          /\ calls.compile = 0
          /\ Exists(fs, dump.at)
          /\ Exists(fs, dump.from)

\* children named A under both `contracts` and `src`: the second move
\* found src/A in place
C4_CollisionInSourceDir ==
    /\ dump.err = "destination already exists"
    /\ dump.at = <<"src", "A">>
    /\ dump.n_moved = 1
    /\ pc = "Failed"

-----------------------------------------------------------------------------
(* Properties of find_main_contract *)

Matches == {i \in 1..Len(artifacts) : artifacts[i].name = target}

\* C6: find_main_contract returns an artifact iff exactly one artifact
\* bears the target name, and then that artifact with its file; no match
\* gives 'contract not found'; two or more give the ambiguity error and
\* none of the matches.
C6_UniqueMatchOrError ==
    pc = "Found" =>
        /\ found.ok <=> Cardinality(Matches) = 1
        /\ found.ok =>
              \E i \in Matches : /\ found.artifact = artifacts[i]
                                 /\ found.file = artifacts[i].file
        /\ Matches = {} => found.err = "contract not found"
        /\ Cardinality(Matches) >= 2 =>
              /\ found.err = "multiple contracts with the same name found"
              /\ found.artifact = NoArtifact
              /\ found.file = <<>>

\* two artifacts bear the target name and the lookup has answered
C6_TwoMatches ==
    /\ pc = "Found"
    /\ Cardinality(Matches) = 2
    /\ ~found.ok

-----------------------------------------------------------------------------
(* Properties of dump_sources *)

RecognizedNames == {"src", "lib", "node_modules", "contracts", "hardhat",
                    "forge-std"}

NameStartsWithAt == {"@openzeppelin"}

\* the remappings dump_sources pushed for its moves: after those of
\* find_many, before those declared in the settings
Generated ==
    (dump.n_existing + 1)..(Len(dump.pushed) - Len(meta.remappings))

MovesFrom(from) == {i \in 1..Len(dump.moves) : dump.moves[i].from = from}

GeneratedFor(name) == {i \in Generated : dump.pushed[i].name = name}

\* from was moved once, to dest, and name was remapped once, to dest
MovedAndRemapped(from, dest, name) ==
    /\ Cardinality(MovesFrom(from)) = 1
    /\ \A i \in MovesFrom(from) : dump.moves[i].to = dest
    /\ Cardinality(GeneratedFor(name)) = 1
    /\ \A i \in GeneratedFor(name) : dump.pushed[i].path = Abs(dest)

FlattenTarget(top) ==
    CASE top = "lib" -> <<"lib">>
      [] top = "node_modules" -> <<"node_modules">>
      [] top \in {"contracts", "src"} -> <<"src">>

\* C8: when reorganizing, every child of a top-level contracts, src, lib
\* or node_modules is moved to target/child, the target being the library
\* directory for lib, root/node_modules for node_modules and the source
\* directory for contracts and src, and exactly one remapping
\* "top/child" -> that location is recorded for it.
C8_ChildrenFlattenedAndRemapped ==
    (dump.staged /\ dump.ok /\ dump.reorg) =>
        \A p \in meta.tree :
            p[1] \in {"contracts", "src", "lib", "node_modules"} =>
                LET dest == FlattenTarget(p[1]) \o <<p[2]>>
                IN /\ MovedAndRemapped(Staged \o p, dest, p)
                   /\ ~UnderRemoved(dest) =>
                         (dest \in DOMAIN fs /\ fs[dest] = <<"fetched">> \o p)

\* a child of node_modules and a child of lib, both flattened
C8_TwoTargets ==
    /\ dump.staged /\ dump.ok /\ dump.reorg
    /\ meta.tree = {<<"node_modules", "A">>, <<"lib", "A">>}
    /\ Exists(fs, <<"node_modules", "A">>)
    /\ Exists(fs, <<"lib", "A">>)

WholeEntries == {e \in TopEntries(meta.tree) : e \notin FlattenNames}

\* C9 as claimed: when reorganizing, hardhat, forge-std and @-entries are
\* moved whole to lib/name with a remapping name -> lib/name, and a
\* hardhat or forge-std whose destination exists replaces it and the run
\* continues.
C9_ScaffoldingReplacesExisting ==
    (dump.staged /\ dump.reorg) =>
        /\ dump.ok =>
              \A e \in WholeEntries :
                  MovedAndRemapped(Staged \o <<e>>, <<"lib", e>>, <<e>>)
        /\ \A e \in {"hardhat", "forge-std"} :
              ~(/\ dump.err = "destination already exists"
                /\ dump.from = Staged \o <<e>>)

\* C9 amended: when reorganizing, hardhat, forge-std and @-entries are
\* moved whole to lib/name with one remapping name -> lib/name; only a
\* forge-std finds its existing destination deleted and is put in its
\* place; a hardhat or @-entry whose destination exists is not moved,
\* its destination stays as it was and dump_sources fails with
\* 'destination already exists' when it comes to it.
C9_OnlyForgeStdReplacesExisting ==
    (dump.staged /\ dump.reorg) =>
        /\ dump.ok =>
              \A e \in WholeEntries :
                  /\ MovedAndRemapped(Staged \o <<e>>, <<"lib", e>>, <<e>>)
                  /\ fs[<<"lib", e>>] = <<"fetched", e>>
        /\ \A i \in 1..Len(dump.moves) :
              dump.moves[i].existed =>
                  /\ dump.moves[i].from = Staged \o <<"forge-std">>
                  /\ dump.moves[i].to = <<"lib", "forge-std">>
                  /\ dump.moves[i].to \in dump.removed
        /\ dump.removed \subseteq {<<"lib", "forge-std">>}
        /\ \A e \in WholeEntries \ {"forge-std"} :
              Exists(fsBefore, <<"lib", e>>) =>
                  /\ ~dump.ok
                  /\ MovesFrom(Staged \o <<e>>) = {}
                  /\ Exists(fs, <<"lib", e>>)
                  /\ fs[<<"lib", e>>] = fsBefore[<<"lib", e>>]
                  /\ dump.from = Staged \o <<e>> =>
                        /\ dump.err = "destination already exists"
                        /\ dump.at = <<"lib", e>>

\* the fetched forge-std took the place of the installed one
C9_ForgeStdReplaced ==
    /\ dump.staged /\ dump.ok /\ dump.reorg
    /\ Exists(fsBefore, <<"lib", "forge-std">>)
    /\ <<"lib", "forge-std">> \in dump.removed
    /\ fs[<<"lib", "forge-std">>] = <<"fetched", "forge-std">>

\* C10: when not reorganizing, every top-level entry is moved as it is
\* to src/name, what is below it staying below it, and one remapping
\* name -> src/name is recorded for every entry but `src`, none for `src`.
C10_MovedWholeIntoSourceDir ==
    (dump.staged /\ dump.ok /\ ~dump.reorg) =>
        /\ \A e \in TopEntries(meta.tree) :
              /\ Cardinality(MovesFrom(Staged \o <<e>>)) = 1
              /\ \A i \in MovesFrom(Staged \o <<e>>) :
                    dump.moves[i].to = <<"src", e>>
              /\ IF e = "src"
                 THEN GeneratedFor(<<e>>) = {}
                 ELSE /\ Cardinality(GeneratedFor(<<e>>)) = 1
                      /\ \A i \in GeneratedFor(<<e>>) :
                            dump.pushed[i].path = Abs(<<"src", e>>)
        /\ \A p \in meta.tree :
              /\ <<"src">> \o p \in DOMAIN fs
              /\ fs[<<"src">> \o p] = <<"fetched">> \o p
        /\ Cardinality(Generated) =
              Cardinality(TopEntries(meta.tree) \ {"src"})

\* the tree kept as it is, `src` among its entries
C10_SrcKeptUnderSrc ==
    /\ dump.staged /\ dump.ok /\ ~dump.reorg
    /\ "src" \in TopEntries(meta.tree)
    /\ Cardinality(TopEntries(meta.tree)) = 2
    /\ Exists(fs, <<"src", "src", "A">>)

-----------------------------------------------------------------------------
(* Properties of what dump_sources leaves and returns *)

LocationsOf(p) == {q \in DOMAIN fs : fs[q] = <<"fetched">> \o p}

\* C11: after a successful dump_sources, reorganizing or not, nothing is
\* left at or under raw_sources and every fetched file is at exactly one
\* place under the root.
C11_StagingGoneEveryFileOnce ==
    (dump.staged /\ dump.ok) =>
        /\ \A q \in DOMAIN fs : ~IsPrefix(Staging, q)
        /\ \A p \in meta.tree : Cardinality(LocationsOf(p)) = 1

MissingDirError == {"src directory must exists", "lib directory must exists"}

\* C12: when the source or the library directory is missing dump_sources
\* fails, and fails with nothing of the fetched tree written under the
\* root: the file system is as it was found.
C12_MissingDirFailsBeforeAnyWrite ==
    (dump.staged /\ (~Exists(fsBefore, <<"src">>) \/ ~Exists(fsBefore, <<"lib">>)))
    => /\ ~dump.ok
       /\ dump.err \in MissingDirError
       /\ dump.moves = <<>>
       /\ fs = fsBefore

\* the name under which a move is remapped: its path in the staged tree
MoveName(m) == Tail2(m.from, Len(Staged))

HasRemapping(m) == dump.reorg \/ MoveName(m) # <<"src">>

RemappingOfMove(m) == Remapping(MoveName(m), m.to)

RECURSIVE RemappingsOfMoves(_)
RemappingsOfMoves(ms) ==
    IF ms = <<>> THEN <<>>
    ELSE <<RemappingOfMove(Head(ms))>> \o RemappingsOfMoves(Tail(ms))

\* where the declared remappings start in the returned list
DeclaredFrom == Len(dump.remappings) - Len(meta.remappings)

\* C13: the list dump_sources returns is, in this order, the remappings
\* found in the project before anything was written, those of the moves
\* in the order of the moves, those declared in the settings in their
\* declared order.
C13_ExistingThenGeneratedThenDeclared ==
    (dump.staged /\ dump.ok) =>
        LET existing == MapRelative(find_many(fsBefore))
            generated == RemappingsOfMoves(SelectSeq(dump.moves, HasRemapping))
        IN /\ Len(dump.remappings) =
                Len(existing) + Len(generated) + Len(meta.remappings)
           /\ SubSeq(dump.remappings, 1, Len(existing)) = existing
           /\ SubSeq(dump.remappings, Len(existing) + 1, DeclaredFrom)
                = generated
           /\ \A i \in 1..Len(meta.remappings) :
                dump.remappings[DeclaredFrom + i].name = meta.remappings[i].name

\* a list with an entry of each of the three groups, two declared
C13_ThreeGroups ==
    /\ dump.staged /\ dump.ok
    /\ dump.n_existing >= 1
    /\ Len(dump.moves) >= 1
    /\ Len(meta.remappings) = 2
    /\ Len(dump.remappings) >= 4

\* the rewrite of a declared path as the claim C14 gives it
RewrittenPath(path, reorg) ==
    IF ~reorg THEN path
    ELSE IF path[1] = "contracts" THEN <<"src">> \o Tail(path)
    ELSE IF path[1] \in NameStartsWithAt
              \/ (path[1] \in {"hardhat", "forge-std"} /\ Len(path) >= 2)
    THEN <<"lib">> \o path
    ELSE path

\* C14: the rewrite of a declared remapping never fails, and gives src
\* for a leading `contracts`, a leading lib for @, hardhat/ and
\* forge-std/ paths, and the path itself otherwise (contracts-v2/..
\* included) and whenever no reorganization took place.
C14_RewriteIsTotal ==
    dump.staged =>
        /\ dump.err # "strip_prefix: prefix not found"
        /\ dump.ok =>
              \A i \in 1..Len(meta.remappings) :
                  dump.remappings[DeclaredFrom + i].path =
                      RewrittenPath(meta.remappings[i].path, dump.reorg)

\* C15: no remapping dump_sources returns carries the root in front of
\* its path; the entry of a move has the move's destination, relative to
\* the root, for its path.
C15_ReturnedPathsAreRelative ==
    (dump.staged /\ dump.ok) =>
        /\ \A i \in 1..Len(dump.remappings) :
              ~IsPrefix(<<RootMark>>, dump.remappings[i].path)
        /\ \A i \in Generated :
              \E k \in 1..Len(dump.moves) :
                  dump.remappings[i].path = dump.moves[k].to

\* existing and generated entries, pushed with the root in front
C15_AbsolutePushed ==
    /\ dump.staged /\ dump.ok
    /\ dump.n_existing >= 1
    /\ Generated # {}
    /\ \A i \in 1..(dump.n_existing + 1) :
          IsPrefix(<<RootMark>>, dump.pushed[i].path)

\* C16: the returned list has no two entries of the same name and
\* different paths.
C16_NoConflictingNames ==
    (dump.staged /\ dump.ok) =>
        \A i, j \in 1..Len(dump.remappings) :
            dump.remappings[i].name = dump.remappings[j].name =>
                dump.remappings[i].path = dump.remappings[j].path

------------------------------------------------------------------------------
(* Properties of update_config_by_metadata *)

\* the synthesis step has run and update_config_by_metadata returned Ok
Synthesized ==
    /\ pc = "Export"
    /\ log # <<>>
    /\ log[Len(log)] = Stage("synthesize", TRUE)

\* key k of the profile is as it was when synthesis was entered
SameAt(k) ==
    /\ (k \in DOMAIN doc) <=> (k \in DOMAIN docBefore)
    /\ k \in DOMAIN doc => doc[k] = docBefore[k]

\* the optimizer_details table of a document and its yulDetails table
DetailsOf(d) ==
    IF "optimizer_details" \in DOMAIN d /\ d["optimizer_details"].is_table
    THEN d["optimizer_details"].items ELSE NoItems

HasYul(d) == "yulDetails" \in DOMAIN DetailsOf(d)

YulOf(d) ==
    IF HasYul(d) /\ DetailsOf(d)["yulDetails"].is_table
    THEN DetailsOf(d)["yulDetails"].items ELSE NoItems

DetailKeySet == {DetailKeys[i] : i \in 1..Len(DetailKeys)}
YulKeySet == {YulKeys[i] : i \in 1..Len(YulKeys)}

\* what the settings report for a field: None when they do not report it
ReportedTop(k) ==
    CASE k = "evm_version" -> meta.evm_version
      [] k = "via_ir" -> meta.via_ir
      [] k = "optimizer" -> meta.optimizer
      [] k = "optimizer_runs" -> meta.optimizer_runs
      [] OTHER -> IF meta.metadata = None THEN None ELSE meta.metadata[1][k]

TopKeys == {"evm_version", "via_ir", "optimizer", "optimizer_runs",
            "cbor_metadata", "use_literal_content", "bytecode_hash"}

ReportedDetail(k) ==
    IF meta.optimizer_details = None THEN None
    ELSE meta.optimizer_details[1].fields[k]

YulReported ==
    /\ meta.optimizer_details # None
    /\ meta.optimizer_details[1].yul_details # None

ReportedYul(k) ==
    IF YulReported THEN meta.optimizer_details[1].yul_details[1][k] ELSE None

\* C17: after a successful config synthesis the profile has chain_id equal
\* to the clone's chain id, auto_detect_solc = false and solc_version equal
\* to exactly major.minor.patch of the metadata's compiler version, with no
\* pre-release or build suffix, whatever those keys held before.
C17_ChainSolcVersionOverwritten ==
    Synthesized =>
        /\ {"chain_id", "auto_detect_solc", "solc_version"} \subseteq DOMAIN doc
        /\ doc["chain_id"] = args.chain
        /\ doc["auto_detect_solc"] = FALSE
        /\ doc["solc_version"] =
               <<meta.version.major, meta.version.minor, meta.version.patch>>

\* a document that held other values for the three keys, a version with a
\* build suffix
C17_PresetOverwritten ==
    /\ Synthesized
    /\ "chain_id" \in DOMAIN docBefore
    /\ docBefore["chain_id"] # args.chain
    /\ docBefore["auto_detect_solc"] = TRUE
    /\ docBefore["solc_version"] # doc["solc_version"]
    /\ meta.version.build # ""
    /\ args.chain # ChainId

C19_UnreportedFieldsKept ==
    Synthesized =>
        /\ \A k \in TopKeys : ReportedTop(k) = None => SameAt(k)
        /\ \A k \in DetailKeySet :
              ReportedDetail(k) = None /\ k \in DOMAIN DetailsOf(docBefore) =>
                  /\ k \in DOMAIN DetailsOf(doc)
                  /\ DetailsOf(doc)[k] = DetailsOf(docBefore)[k]
        /\ \A k \in YulKeySet :
              ReportedYul(k) = None /\ k \in DOMAIN YulOf(docBefore) =>
                  /\ k \in DOMAIN YulOf(doc)
                  /\ YulOf(doc)[k] = YulOf(docBefore)[k]

KeysToSet ==
    {"chain_id", "auto_detect_solc", "solc_version", "libraries"}
        \cup {k \in TopKeys : ReportedTop(k) # None}
        \cup (IF meta.optimizer_details # None THEN {"optimizer_details"}
              ELSE {})

EnumeratedKeys ==
    {"chain_id", "auto_detect_solc", "solc_version", "evm_version", "via_ir",
     "cbor_metadata", "use_literal_content", "bytecode_hash", "optimizer",
     "optimizer_runs", "optimizer_details", "libraries", "remappings",
     "auto_detect_remappings"}

C23_ExistingTxtIsRefused ==
    /\ pc \in {"Cooldown", "Failed"} /\ ~args.no_remappings_txt
            /\ Exists(fsBefore, RemappingsTxt) =>
          /\ pc = "Failed"
          /\ err = "remappings.txt already exists"
          /\ fs = fsBefore
    /\ Exists(fsBefore, RemappingsTxt) =>
          Exists(fs, RemappingsTxt) /\ fs[RemappingsTxt] = ExistingTxt
    /\ fs # fsBefore =>
          /\ ~Exists(fsBefore, RemappingsTxt)
          /\ ~args.no_remappings_txt
          /\ Exists(fs, RemappingsTxt)

\* the export met a remappings.txt and failed
C23_ExportRefused ==
    /\ pc = "Failed"
    /\ ~args.no_remappings_txt
    /\ Exists(fsBefore, RemappingsTxt)
    /\ fs[RemappingsTxt] = ExistingTxt
    /\ "remappings" \in DOMAIN doc

\* C24: materialization and the remappings written to the configuration
\* document are the same for every order in which read_dir can yield the
\* entries: a second run on the same metadata and the same root, with any
\* other enumeration order, ends with the same file system and the same
\* remappings in the same order.
C24_SameForEveryEnumerationOrder ==
    pc = "Config" =>
        \A plan \in Plans(meta.tree) :
            LET other == dump_sources(fsBefore, meta,
                                      args.keep_directory_structure, plan)
            IN /\ other.ok
               /\ other.fs = fs
               /\ other.remappings = doc["remappings"]

\* the remappings of a table whose name is a prefix of the import path
MatchesOf(path, table) ==
    {i \in 1..Len(table) : IsPrefix(table[i].name, path)}

\* the compiler's choice among them: the longest name, the last of equals
BestMatch(path, table) ==
    CHOOSE i \in MatchesOf(path, table) :
        \A j \in MatchesOf(path, table) :
            \/ Len(table[j].name) < Len(table[i].name)
            \/ Len(table[j].name) = Len(table[i].name) /\ j <= i

\* an import path resolved through a remapping table, relative to the root
Resolve(path, table) ==
    IF MatchesOf(path, table) = {} THEN path
    ELSE LET r == table[BestMatch(path, table)]
         IN r.path \o Tail2(path, Len(r.name))

\* C25: after a successful reorganizing dump_sources every file of the
\* fetched tree, taken as an import path and resolved through the returned
\* remappings, is found under the root with the content that was fetched.
C25_EveryFetchedPathResolves ==
    pc = "Remappings" /\ dump.ok /\ dump.reorg =>
        \A p \in meta.tree :
            LET q == Resolve(p, dump.remappings)
            IN Exists(fs, q) /\ fs[q] = <<"fetched">> \o p

\* C26: the source-code request and the creation-data request are each
\* issued at most once in every run and exactly once in a successful run;
\* the creation-data request is issued only after the source-code request
\* has been answered, so no two requests are pending at once.
C26_EachRequestOnceSourceFirst ==
    /\ calls.source <= 1
    /\ calls.creation <= 1
    /\ calls.creation = 1 =>
          calls.source = 1 /\ answer.ok /\ creation.asked
    /\ creation.asked => calls.creation = 1
    /\ pc \in {"Commit", "Done"} =>
          calls.source = 1 /\ calls.creation = 1 /\ creation.ok

\* a run that ended successfully
C26_RunDone ==
    /\ pc = "Done"
    /\ calls.source = 1
    /\ calls.creation = 1
    /\ cloneMeta.present

\* C27: the cooldown is taken at most once, only when the explorer API key
\* is empty, only after config synthesis succeeded and before the
\* creation-data request; a run that issues the creation-data request has
\* taken the cooldown exactly when the key is empty.
C27_CooldownOnlyWithoutKeyAfterSynthesis ==
    /\ calls.sleep <= 1
    /\ calls.sleep = 1 =>
          /\ args.api_key_empty
          /\ \E i \in 1..Len(log) : log[i] = Stage("synthesize", TRUE)
    /\ pc = "Compile" => calls.creation = 0
    /\ calls.creation = 1 => (calls.sleep = 1 <=> args.api_key_empty)

\* C28: git add --all and git commit are invoked only when commit is
\* configured in the install options and only after the clone record was
\* written, the commit only after the add; a run with commit configured
\* that ends successfully has done both once, and a run without it ends
\* successfully with neither invoked.
C28_SnapshotOnlyIfConfiguredAfterRecord ==
    /\ calls.git_add <= 1
    /\ calls.git_commit <= calls.git_add
    /\ calls.git_add = 1 =>
          /\ args.commit
          /\ cloneMeta.present
          /\ calls.meta_writes = 1
    /\ ~args.commit => calls.git_add = 0 /\ calls.git_commit = 0
    /\ pc = "Done" =>
          /\ cloneMeta.present
          /\ args.commit <=> calls.git_commit = 1
          /\ args.commit <=>
                log[Len(log)] = Stage("commit", TRUE)

\* a run without commit that ended successfully
C28_DoneWithoutSnapshot ==
    /\ pc = "Done"
    /\ ~args.commit
    /\ calls.git_add = 0
    /\ calls.git_commit = 0
    /\ cloneMeta.present

\* the initializer stage of the run has been logged with this result
InitLogged(ok) == \E i \in 1..Len(log) : log[i] = Stage("init", ok)

\* C29: when init_an_empty_project has returned Ok none of the three sample
\* files is under the root; when the initializer failed or one of the
\* sample files could not be removed the run has failed and dump_sources
\* never ran.
C29_SamplesGoneOrNoMaterialization ==
    /\ pc = "Dump" =>
          InitLogged(TRUE) /\ \A p \in SampleFiles : ~Exists(fs, p)
    /\ InitLogged(FALSE) =>
          /\ pc = "Failed"
          /\ err \in {"Project init error", "remove_file failed"}
          /\ dump = NoDump
          /\ ~Exists(fs, Staging)
    /\ dump # NoDump => InitLogged(TRUE)

\* the second removal failed: the first sample is gone, the others are left
C29_RemovalFailed ==
    /\ pc = "Failed"
    /\ err = "remove_file failed"
    /\ ~Exists(fs, SampleOrder[1])
    /\ Exists(fs, SampleOrder[2])
    /\ Exists(fs, SampleOrder[3])
    /\ dump = NoDump

\* C30: collect_compilation_metadata on a root that already holds the
\* clone record of an earlier run succeeds whenever the compilation, the
\* main contract and the creation data are there, and leaves a clone
\* record with the content of the new run.
C30_RecloneWritesNewRecord ==
    found.ok /\ creation.asked /\ creation.ok =>
        /\ pc = "Commit"
        /\ cloneMeta.present
        /\ cloneMeta.path = found.main_file
        /\ cloneMeta.target_contract = ContractName
        /\ cloneMeta.storage_layout = found.storage_layout
        /\ cloneMeta.creation_transaction = creation.transaction_hash
        /\ cloneMeta.deployer = creation.contract_creator

-----------------------------------------------------------------------------
(* Properties of collect_compilation_metadata *)

\* the failures that leave the function by a panic, not through its Result
Panics == {"panic: storage layout not found"}

\* C31: when the one matched artifact carries no storage layout the
\* extraction fails with an error result that tells the reason, not with a
\* panic; the creation-data request is not issued and no clone record is
\* written.
C31_MissingLayoutIsAnErrorResult ==
    found.err = "panic: storage layout not found" =>
        /\ pc = "Failed"
        /\ err # ""
        /\ err \notin Panics
        /\ calls.creation = 0
        /\ ~creation.asked
        /\ ~cloneMeta.present

-----------------------------------------------------------------------------
(* Properties of a run that fails part-way *)

\* the moves that took the fetched path p, or a directory above it
MovesOf(p) ==
    {i \in 1..Len(dump.moves) : IsPrefix(dump.moves[i].from, Staged \o p)}

SynthesisLogged == \E i \in 1..Len(log) : log[i] = Stage("synthesize", TRUE)

\* C32: when dump_sources fails in its loop of moves the run ends with the
\* file system as the failure left it: every entry moved before the failing
\* one is at its destination as it was fetched, every entry not yet moved
\* is still under raw_sources, which is not removed; and a run that fails
\* after config synthesis succeeded ends with the synthesized document.
C32_NoRollback ==
    /\ pc = "Failed" /\ dump.staged /\ ~dump.ok
            /\ dump.err \notin MissingDirError =>
          /\ fs = dump.fs
          /\ Exists(fs, Staging)
          /\ Exists(fs, Staged)
          /\ \A i \in 1..Len(dump.moves) : MovedIntact(dump.moves[i])
          /\ \A p \in meta.tree :
                MovesOf(p) = {} =>
                    /\ Exists(fs, Staged \o p)
                    /\ fs[Staged \o p] = <<"fetched">> \o p
    /\ pc = "Failed" /\ SynthesisLogged =>
          LET s == update_config_by_metadata(docBefore, meta, args.chain).doc
          IN /\ doc \in {s, RemoveKey(s, "remappings")}
             /\ doc["chain_id"] = args.chain

\* one entry was moved, the next one met its destination in place
C32_FailedAfterOneMove ==
    /\ pc = "Failed"
    /\ dump.err = "destination already exists"
    /\ Len(dump.moves) = 1
    /\ MovesOf(Tail2(dump.from, 2)) = {}
    /\ Exists(fs, dump.from)
    /\ Exists(fs, dump.moves[1].to)

\* C33: the storage layout in a clone record that this run wrote is the
\* storage layout of the one artifact of this run's compile that bears the
\* target contract name, and the record's path is that artifact's file
\* relative to the project root; when that file is not under the root the
\* extraction fails and nothing is written.
C33_RecordIsTheMatchedArtifact ==
    /\ calls.meta_writes = 1 =>
          /\ Cardinality(Matches) = 1
          /\ \A i \in Matches :
                /\ cloneMeta.storage_layout = artifacts[i].storage_layout
                /\ artifacts[i].storage_layout # NoLayout
                /\ Abs(cloneMeta.path) = artifacts[i].file
          /\ cloneMeta.target_contract = target
    /\ (calls.compile = 1 /\ Cardinality(Matches) = 1
            /\ \A i \in Matches : ~IsPrefix(<<RootMark>>, artifacts[i].file))
          => /\ ~found.ok
             /\ pc = "Failed"
             /\ calls.meta_writes = 0

\* two artifacts with different layouts, the second one is the match
C33_SecondOfTwoRecorded ==
    /\ calls.meta_writes = 1
    /\ Len(artifacts) = 2
    /\ artifacts[1].name # target
    /\ artifacts[1].storage_layout = "L1"
    /\ cloneMeta.storage_layout = "L2"
    /\ cloneMeta.path = <<"lib", "Main.sol">>

(* ---------------------------------------------------------------------- *)
(* Properties of parse_metadata: where the remappings end up              *)
(* ---------------------------------------------------------------------- *)

ExportSkipped == \E i \in 1..Len(log) : log[i] = Stage("export", FALSE)

RemappingsInFileOnly ==
    /\ Exists(fs, RemappingsTxt)
    /\ remappingsTxt = dump.remappings
    /\ "remappings" \notin DOMAIN doc

RemappingsInProfileOnly ==
    /\ "remappings" \in DOMAIN doc
    /\ doc["remappings"] = dump.remappings
    /\ Exists(fs, RemappingsTxt) = Exists(fsBefore, RemappingsTxt)

\* C34: once parse_metadata has returned Ok the remappings live in exactly
\* one place: with the export enabled remappings.txt holds them, one per
\* line, and the profile has no remappings key; with no_remappings_txt the
\* profile's remappings key holds the reconciled list in order and no
\* remappings.txt is created.
C34_RemappingsInOnePlace ==
    pc = "Cooldown" =>
        IF args.no_remappings_txt THEN RemappingsInProfileOnly
        ELSE RemappingsInFileOnly

C34_HoldsWhenWritten ==
    (pc = "Cooldown" /\ ~ExportSkipped) =>
        IF args.no_remappings_txt THEN RemappingsInProfileOnly
        ELSE RemappingsInFileOnly

(* ---------------------------------------------------------------------- *)
(* Properties of parse_metadata: a failed synthesis                       *)
(* ---------------------------------------------------------------------- *)

SynthesisFailed ==
    /\ pc = "Export"
    /\ log # <<>>
    /\ log[Len(log)] = Stage("synthesize", FALSE)

\* C35: when update_config_by_metadata fails, the persisted document is
\* exactly the one that was there before synthesis started: none of the
\* writes made before the failure point is saved, while the remappings and
\* auto_detect_remappings = false written by the first update remain.
C35_FailedSynthesisPersistsNothing ==
    SynthesisFailed =>
        /\ doc = docBefore
        /\ "remappings" \in DOMAIN doc
        /\ doc["remappings"] = dump.remappings
        /\ "auto_detect_remappings" \in DOMAIN doc
        /\ doc["auto_detect_remappings"] = FALSE

\* a failed synthesis whose first writes would have changed the document
C35_FailedAfterFirstWrites ==
    /\ SynthesisFailed
    /\ meta.version_ok
    /\ meta.stop_after # None
    /\ "chain_id" \notin DOMAIN doc
    /\ "solc_version" \notin DOMAIN doc
    /\ dump.remappings # <<>>

(* ---------------------------------------------------------------------- *)
(* Properties of update_config_by_metadata: the libraries                 *)
(* ---------------------------------------------------------------------- *)

\* the (file, name, address) bindings the settings declare
DeclaredBindings ==
    UNION {{<<g.file, g.info[k].name, g.info[k].address>> :
               k \in 1..Len(g.info)} :
           g \in {meta.libraries[i] : i \in 1..Len(meta.libraries)}}

\* the declared path after the remappings and without the root prefix
Rewritten(file) ==
    LET r == resolve_import(file, dump.remappings)
    IN IF IsPrefix(<<RootMark>>, r) THEN Tail2(r, 1) ELSE r

LibraryEntries ==
    {doc["libraries"][i] : i \in 1..Len(doc["libraries"])}

RewrittenApart ==
    \A a, b \in DeclaredBindings : Rewritten(a[1]) = Rewritten(b[1]) => a = b

\* C36: a successful synthesis leaves under `libraries` an array with
\* exactly one entry path:name:address for every (file, name) binding of
\* the settings, the path rewritten by the remappings and relative to the
\* root; with no binding declared the array is empty.
C36_OneEntryPerBinding ==
    Synthesized =>
        /\ "libraries" \in DOMAIN doc
        /\ Len(doc["libraries"]) = Cardinality(DeclaredBindings)
        /\ LibraryEntries =
              {<<Rewritten(b[1]), b[2], b[3]>> : b \in DeclaredBindings}

C36_HoldsWhenRewrittenApart ==
    (Synthesized /\ RewrittenApart) =>
        /\ "libraries" \in DOMAIN doc
        /\ Len(doc["libraries"]) = Cardinality(DeclaredBindings)
        /\ LibraryEntries =
              {<<Rewritten(b[1]), b[2], b[3]>> : b \in DeclaredBindings}

C36_RemappedAndPlainRendered ==
    /\ Synthesized
    /\ doc["libraries"] =
          <<<<<<"lib", "@openzeppelin", "Math.sol">>, "Math", "0xbb">>,
            <<<<"src", "Lib.sol">>, "Lib", "0xaa">>>>

(* ---------------------------------------------------------------------- *)
(* Properties of dump_sources: forge-std without an installed copy        *)
(* ---------------------------------------------------------------------- *)

FetchedForgeStd == {p \in meta.tree : p[1] = "forge-std"}

NoInstalledForgeStd ==
    /\ Exists(fsBefore, <<"lib">>)
    /\ ~Exists(fsBefore, <<"lib", "forge-std">>)

\* C37: the deletion before the move of a fetched top-level forge-std
\* happens only when the destination exists: with no forge-std in the
\* library directory the materialization does not fail at the deletion,
\* and when it returns Ok the fetched forge-std is in the library directory.
C37_DeletionOnlyOfExistingDestination ==
    (dump.staged /\ dump.reorg /\ FetchedForgeStd # {} /\ NoInstalledForgeStd)
        => /\ dump.err # "remove_dir_all: not found"
           /\ dump.ok =>
                \A p \in FetchedForgeStd :
                    /\ Exists(fs, <<"lib">> \o p)
                    /\ fs[<<"lib">> \o p] = <<"fetched">> \o p

\* the same case with nothing else in the fetched tree or in the root that
\* could stop the materialization
C37_OnlyForgeStdFetchedFails ==
    /\ dump.staged /\ dump.reorg /\ NoInstalledForgeStd
    /\ FetchedForgeStd = meta.tree /\ meta.tree # {}
    /\ meta.remappings = <<>>
    /\ ~dump.ok

(* ---------------------------------------------------------------------- *)
(* Properties of sign_transaction_from                                    *)
(* ---------------------------------------------------------------------- *)

\* C38: for a typed transaction of any variant but Deposit, a wallet with
\* no signer for the sender answers with the error Signer not found and no
\* envelope, and an envelope that is returned has the variant of the
\* transaction that was handed in.
C38_SignedArmsNeedTheSigner ==
    (pc = "Signed" /\ txRequest.tx.variant # "Deposit") =>
        /\ txRequest.sender \notin wallet =>
              /\ ~signed.ok
              /\ signed.err = SignerNotFound
              /\ signed.envelope = None
        /\ signed.ok =>
              /\ signed.envelope # None
              /\ signed.envelope[1].variant = txRequest.tx.variant

C38_TempoWithoutSigner ==
    /\ pc = "Signed"
    /\ txRequest.tx.variant = "Tempo"
    /\ wallet # {}
    /\ txRequest.sender \notin wallet
    /\ signed.err = SignerNotFound

\* C39: a Deposit transaction is never signed: whatever the sender and
\* whatever signers the wallet holds, the answer is a Deposit envelope that
\* seals the transaction as it was handed in, and never Signer not found.
C39_DepositIsSealedUnsigned ==
    (pc = "Signed" /\ txRequest.tx.variant = "Deposit") =>
        /\ signed.ok
        /\ signed.err # SignerNotFound
        /\ signed.envelope =
              Some([variant |-> "Deposit", tx |-> txRequest.tx.inner,
                    signature |-> <<"sealed">>])

C39_DepositWithoutSigner ==
    /\ pc = "Signed"
    /\ txRequest.tx.variant = "Deposit"
    /\ txRequest.sender \notin wallet
    /\ signed.ok

(* ---------------------------------------------------------------------- *)
(* Properties of the unsafe-typecast lint                                 *)
(* ---------------------------------------------------------------------- *)

\* a call of a type with at least one argument
IsTypeCast ==
    /\ lintExpr[1] = "Call"
    /\ lintExpr[2][1] = "TypeCall"
    /\ lintExpr[3] # <<>>

\* string literal, identifier, call or member access
NotInferable(e) ==
    \/ e = Lit("Str")
    \/ e[1] \in {"Ident", "Call", "Member"}

\* C40: on every type-cast call the check ends with a verdict: no
\* diagnostic when the type of the first argument cannot be inferred or the
\* target type is not elementary, a boolean in every other case, and at
\* most one diagnostic per call, on the span of the first argument.
C40_EveryCastGetsAVerdict ==
    (pc = "Linted" /\ IsTypeCast) =>
        /\ lintOut.state = "returned"
        /\ (NotInferable(lintExpr[3][1]) \/ lintExpr[2][2][1] # "Elementary")
              => lintOut.emitted = <<>>
        /\ Len(lintOut.emitted) <= 1
        /\ \A i \in 1..Len(lintOut.emitted) :
              lintOut.emitted[i].span = SpanOfArg(1)

\* the part of C40 about arguments whose type is not inferred
C40_NotInferableIsSafe ==
    (pc = "Linted" /\ IsTypeCast /\ NotInferable(lintExpr[3][1])) =>
        /\ lintOut.state = "returned"
        /\ lintOut.emitted = <<>>

\* the cast uint8(true): nothing is returned
C40_BoolLiteralPanics ==
    /\ pc = "Linted"
    /\ lintExpr = Call(TypeCall(<<"Elementary", "uint8">>), <<Lit("Bool")>>)
    /\ lintOut.state = "panicked"

\* a cast to a type that is not elementary, of a number literal
C40_NumberToCustomPanics ==
    /\ pc = "Linted"
    /\ lintExpr = Call(TypeCall(<<"Custom">>), <<Lit("Number")>>)
    /\ lintOut.state = "panicked"

====
